---- MODULE Spec2Model ----
(***************************************************************************)
(* The static stack-effect (signature) checker of src/src/check.rs.        *)
(*                                                                         *)
(* A check walks an instruction slice with a VirtualEnv: a main stack of   *)
(* abstract values with its height and minimum height, the temp stacks,    *)
(* the stack of pending function signatures and the stack of array         *)
(* markers.  One action of the model is one iteration of the loop of       *)
(* VirtualEnv::instrs (one call of VirtualEnv::instr), with the            *)
(* instruction as its input; `instrs` records the slice consumed so far.   *)
(***************************************************************************)
EXTENDS Integers, Sequences, FiniteSets, TLC

VARIABLES
    instrs,             \* the instruction slice handed to the check, as far as it was consumed
    pc,                 \* "run": inside VirtualEnv::instrs; "done": instrs_signature returned
    stack,              \* VirtualEnv.stack
    height,             \* VirtualEnv.height
    temp_stacks,        \* VirtualEnv.temp_stacks
    temp_heights,       \* VirtualEnv.temp_heights
    function_stack,     \* VirtualEnv.function_stack
    array_stack,        \* VirtualEnv.array_stack
    min_height,         \* VirtualEnv.min_height
    temp_min_heights,   \* VirtualEnv.temp_min_heights
    err,                \* the Err a `?` propagated out of VirtualEnv::instr, or None
    result,             \* what the latest check returned, or None
    cache,              \* CACHE of instrs_all_signatures: hash -> AllSignatures
    calls               \* the checks completed on this thread, in order

vars == <<instrs, pc, stack, height, temp_stacks, temp_heights, function_stack,
          array_stack, min_height, temp_min_heights, err, result, cache, calls>>

----------------------------------------------------------------------------
(* Bounds of the model *)

\* the longest slice a check is given
MaxLen == 4
\* the longest slice a check is given where array literals are checked
MaxArrayLen == 6
\* the largest literal integer pushed as a repeat count
MaxCount == 3
\* the longest slice a check is given where every instruction that takes
\* function operands is checked
MaxOperandLen == 3
\* the number of values of the content hash of a slice
HashSpace == 7
\* the most checks made one after the other on one thread's cache
MaxCalls == 3

----------------------------------------------------------------------------
(* Option, integers *)

None == <<>>
Some(x) == <<x>>

Max(a, b) == IF a >= b THEN a ELSE b
Min(a, b) == IF a <= b THEN a ELSE b
\* usize::saturating_sub
saturating_sub(a, b) == IF a >= b THEN a - b ELSE 0

\* Vec::pop on a non-empty vector: the vector without its last element
Front(s) == SubSeq(s, 1, Len(s) - 1)
Last(s) == s[Len(s)]

RECURSIVE Reverse(_)
Reverse(s) == IF s = <<>> THEN <<>> ELSE Append(Reverse(Tail(s)), Head(s))

----------------------------------------------------------------------------
(* Signature (function.rs, outside src/: modelled from the specification) *)

Signature(a, o) == [args |-> a, outputs |-> o]

\* Signature::inverse: the signature with args and outputs swapped
inverse(s) == Signature(s.outputs, s.args)

\* Signature::anti: None for a function without arguments
anti(s) ==
    IF s.args = 0 THEN None ELSE Some(Signature(s.outputs + 1, s.args - 1))

\* Signature::compose: self runs first, then b
compose(a, b) ==
    Signature(a.args + saturating_sub(b.args, a.outputs),
              b.outputs + saturating_sub(a.outputs, b.args))

\* the temp stacks (enum TempStack, outside src/; check.rs:338 names Under)
TempStack == {"Inline", "Under"}

----------------------------------------------------------------------------
(* f64 values: <<class, v>>.  "int": the integer v; "half": v + 1/2;       *)
(* "inf": v = 1 is +infinity, v = -1 is -infinity; "nan": not a number.    *)

F64Int(n) == <<"int", n>>
F64Half(n) == <<"half", n>>
F64Inf == <<"inf", 1>>
F64NegInf == <<"inf", -1>>
F64NaN == <<"nan", 0>>

\* n >= 0.0
f64_ge_zero(x) ==
    CASE x[1] = "int" -> x[2] >= 0
      [] x[1] = "half" -> x[2] >= 0
      [] x[1] = "inf" -> x[2] > 0
      [] OTHER -> FALSE
\* n.fract() == 0.0 (infinity - infinity is NaN, so false for the infinities)
f64_fract_is_zero(x) == x[1] = "int"
\* n.is_infinite()
f64_is_infinite(x) == x[1] = "inf"
\* n.abs() as usize, for a number without fractional part
f64_abs_usize(x) == IF x[2] >= 0 THEN x[2] ELSE -x[2]

----------------------------------------------------------------------------
(* Value (the runtime array value, seen through its type, shape and data)  *)
(* and BasicValue, the checker's abstraction of it.                        *)

Value(ty, shape, data) == [ty |-> ty, shape |-> shape, data |-> data]
\* a scalar number literal
NumValue(x) == Value("Num", <<>>, <<x>>)

Num(x) == [t |-> "Num", n |-> x]
Arr(items) == [t |-> "Arr", items |-> items]
Other == [t |-> "Other"]

\* Array::as_scalar
as_scalar(value) == IF value.shape = <<>> THEN Some(value.data[1]) ELSE None

\* BasicValue::from_val
from_val(value) ==
    IF value.ty = "Num" /\ as_scalar(value) # None THEN Num(as_scalar(value)[1])
    ELSE IF value.ty = "Byte" /\ as_scalar(value) # None THEN Num(as_scalar(value)[1])
    ELSE IF Len(value.shape) = 1
         THEN Arr([k \in 1..Len(value.data) |->
                     IF value.ty \in {"Num", "Byte"} THEN Num(value.data[k]) ELSE Other])
    ELSE Other

----------------------------------------------------------------------------
(* SigCheckError *)

Incorrect == [k |-> "Incorrect"]
Ambiguous == [k |-> "Ambiguous"]
LoopOverreach == [k |-> "LoopOverreach"]
LoopVariable(sig, inf) == [k |-> "LoopVariable", sig |-> sig, inf |-> inf]

\* impl From<&str> / From<String> for SigCheckError
SigCheckError_from(message) == [message |-> message, kind |-> Incorrect]
loop_overreach(e) == [e EXCEPT !.kind = LoopOverreach]
loop_variable(e, sig, inf) == [e EXCEPT !.kind = LoopVariable(sig, inf)]
ambiguous(e) == [e EXCEPT !.kind = Ambiguous]

----------------------------------------------------------------------------
(* VirtualEnv *)

\* the environment VirtualEnv::from_instrs constructs
NewEnv ==
    [stack |-> <<>>,
     height |-> 0,
     temp_stacks |-> [t \in TempStack |-> <<>>],
     temp_heights |-> [t \in TempStack |-> 0],
     function_stack |-> <<>>,
     array_stack |-> <<>>,
     min_height |-> 0,
     temp_min_heights |-> [t \in TempStack |-> 0]]

\* the environment held in the variables
Env ==
    [stack |-> stack,
     height |-> height,
     temp_stacks |-> temp_stacks,
     temp_heights |-> temp_heights,
     function_stack |-> function_stack,
     array_stack |-> array_stack,
     min_height |-> min_height,
     temp_min_heights |-> temp_min_heights]

\* derive_sig with the final height taken as the outputs
derive_sig_no_min(minh, final_height) == Signature(minh, Max(final_height, 0))

derive_sig(minh, final_height) == Signature(minh, Max(final_height + minh, 0))

\* VirtualEnv::sig
sig(e) == derive_sig(e.min_height, e.height)

\* the innermost array marker lowered to height h (array_stack.last_mut())
lower_last(markers, h) ==
    IF markers = <<>> THEN <<>>
    ELSE Append(Front(markers), Min(Last(markers), h))

\* set_min_height without the line of the main stack
set_min_height_temps_only(e) ==
    [e EXCEPT
        !.array_stack = lower_last(e.array_stack, e.height),
        !.temp_min_heights =
            [t \in TempStack |->
                Max(e.temp_min_heights[t], Max(-e.temp_heights[t], 0))]]

\* set_min_height with the present deficit written over the minimum height
set_min_height_overwrites(e) ==
    [e EXCEPT
        !.min_height = Max(-e.height, 0),
        !.array_stack = lower_last(e.array_stack, e.height),
        !.temp_min_heights =
            [t \in TempStack |->
                Max(e.temp_min_heights[t], Max(-e.temp_heights[t], 0))]]

\* set_min_height that leaves the open array marker where it is
set_min_height_leaves_marker(e) ==
    [e EXCEPT
        !.min_height = Max(e.min_height, Max(-e.height, 0)),
        !.temp_min_heights =
            [t \in TempStack |->
                Max(e.temp_min_heights[t], Max(-e.temp_heights[t], 0))]]

\* VirtualEnv::set_min_height
set_min_height(e) ==
    [e EXCEPT
        !.min_height = Max(e.min_height, Max(-e.height, 0)),
        !.array_stack = lower_last(e.array_stack, e.height),
        !.temp_min_heights =
            [t \in TempStack |->
                Max(e.temp_min_heights[t], Max(-e.temp_heights[t], 0))]]

\* pop that leaves the height alone when the value record is empty
pop_stops_at_empty(e) ==
    IF e.stack = <<>> THEN [env |-> e, val |-> Other]
    ELSE LET e1 == set_min_height([e EXCEPT !.height = @ - 1])
         IN  [env |-> [e1 EXCEPT !.stack = Front(@)], val |-> Last(e.stack)]

\* pop with the minimum recorded before the height is lowered
pop_min_before(e) ==
    LET e1 == [set_min_height(e) EXCEPT !.height = @ - 1]
    IN  [env |-> [e1 EXCEPT !.stack = IF @ = <<>> THEN <<>> ELSE Front(@)],
         val |-> IF e.stack = <<>> THEN Other ELSE Last(e.stack)]

\* VirtualEnv::pop: the environment after the pop and the value popped
pop(e) ==
    LET e1 == set_min_height([e EXCEPT !.height = @ - 1])
    IN  [env |-> [e1 EXCEPT !.stack = IF @ = <<>> THEN <<>> ELSE Front(@)],
         val |-> IF e.stack = <<>> THEN Other ELSE Last(e.stack)]

\* VirtualEnv::push
push(e, val) == [e EXCEPT !.height = @ + 1, !.stack = Append(@, val)]

\* the two loops of handle_args_outputs
RECURSIVE pop_n(_, _)
pop_n(e, n) == IF n = 0 THEN e ELSE pop_n(pop(e).env, n - 1)
RECURSIVE push_n(_, _)
push_n(e, n) == IF n = 0 THEN e ELSE push_n(push(e, Other), n - 1)

\* handle_args_outputs with its two loops in the other order
handle_args_outputs_push_first(e, args, outputs) == pop_n(push_n(e, outputs), args)

handle_args_outputs(e, args, outputs) == push_n(pop_n(e, args), outputs)

handle_sig(e, s) == handle_args_outputs(e, s.args, s.outputs)

\* VirtualEnv::pop_func: the signature popped, or None with the error message
pop_func(e) ==
    IF e.function_stack = <<>>
    THEN [env |-> e, sig |-> None]
    ELSE [env |-> [e EXCEPT !.function_stack = Front(@)],
          sig |-> Some(Last(e.function_stack))]

\* the Err of pop_func, converted by `?` (From<String>)
ExpectedFunction ==
    SigCheckError_from(<<"expected function. This is an interpreter bug">>)

\* Result<(), SigCheckError> of VirtualEnv::instr, with the environment it leaves
Ok(e) == [env |-> e, err |-> None]
Err(e, x) == [env |-> e, err |-> Some(x)]

----------------------------------------------------------------------------
(* Instructions.  A Prim carries the static metadata of its primitive      *)
(* (Primitive::args, outputs, modifier_args: each an Option), which the    *)
(* checker reads but does not define.                                      *)

Push(value) == [op |-> "Push", val |-> value]
BeginArray == [op |-> "BeginArray"]
EndArray == [op |-> "EndArray"]
PushFunc(s) == [op |-> "PushFunc", sig |-> s]
Prim(prim, args, outputs, modifier_args) ==
    [op |-> "Prim", prim |-> prim, args |-> args, outputs |-> outputs,
     modifier_args |-> modifier_args]

\* ImplPrimitive::args and outputs are plain numbers: always Some here
ImplPrim(prim, args, outputs, modifier_args) ==
    [op |-> "ImplPrim", prim |-> prim, args |-> Some(args), outputs |-> Some(outputs),
     modifier_args |-> modifier_args]
CallGlobal(call, s) == [op |-> "CallGlobal", call |-> call, sig |-> s]
Call == [op |-> "Call"]
CustomInverse == [op |-> "CustomInverse"]
PushTemp(count, t) == [op |-> "PushTemp", count |-> count, stack |-> t]
CopyToTemp(count, t) == [op |-> "CopyToTemp", count |-> count, stack |-> t]
PopTemp(count, t) == [op |-> "PopTemp", count |-> count, stack |-> t]
Switch(count, s, under_cond) ==
    [op |-> "Switch", count |-> count, sig |-> s, under_cond |-> under_cond]
\* Option::unwrap_or
unwrap_or(opt, d) == IF opt = None THEN d ELSE opt[1]

\* Instr::EndArray with the marker left on the array stack
instr_EndArray_keep_marker(e) ==
    IF e.array_stack = <<>>
    THEN Err(e, SigCheckError_from(<<"EndArray without BeginArray">>))
    ELSE
    LET bottom == Last(e.array_stack)
        stack_bottom == Min(Max(bottom, 0), Len(e.stack))
        items == SubSeq(e.stack, stack_bottom + 1, Len(e.stack))
                 \o [k \in 1..Max(-bottom, 0) |-> Other]
        e1 == [e EXCEPT !.stack = SubSeq(e.stack, 1, stack_bottom),
                        !.height = bottom]
    IN  Ok(push(set_min_height(e1), Arr(Reverse(items))))

\* Instr::EndArray
instr_EndArray(e) ==
    IF e.array_stack = <<>>
    THEN Err(e, SigCheckError_from(<<"EndArray without BeginArray">>))
    ELSE
    LET bottom == Last(e.array_stack)
        stack_bottom == Min(Max(bottom, 0), Len(e.stack))
        items == SubSeq(e.stack, stack_bottom + 1, Len(e.stack))
                 \o [k \in 1..Max(-bottom, 0) |-> Other]
        e1 == [e EXCEPT !.array_stack = Front(e.array_stack),
                        !.stack = SubSeq(e.stack, 1, stack_bottom),
                        !.height = bottom]
    IN  Ok(push(set_min_height(e1), Arr(Reverse(items))))

\* Fork with the args of its two functions added
instr_Fork_sum_args(e) ==
    LET p1 == pop_func(e)
        p2 == pop_func(p1.env)
        f == p1.sig[1]
        g == p2.sig[1]
    IN  IF p1.sig = None THEN Err(p1.env, ExpectedFunction)
        ELSE IF p2.sig = None THEN Err(p2.env, ExpectedFunction)
        ELSE Ok(handle_args_outputs(p2.env, f.args + g.args,
                                    f.outputs + g.outputs))

\* Primitive::Fork
instr_Fork(e) ==
    LET p1 == pop_func(e)
        p2 == pop_func(p1.env)
        f == p1.sig[1]
        g == p2.sig[1]
    IN  IF p1.sig = None THEN Err(p1.env, ExpectedFunction)
        ELSE IF p2.sig = None THEN Err(p2.env, ExpectedFunction)
        ELSE Ok(handle_args_outputs(p2.env, Max(f.args, g.args),
                                    f.outputs + g.outputs))

\* Bracket with the larger of the args of its two functions
instr_Bracket_max_args(e) ==
    LET p1 == pop_func(e)
        p2 == pop_func(p1.env)
        f == p1.sig[1]
        g == p2.sig[1]
    IN  IF p1.sig = None THEN Err(p1.env, ExpectedFunction)
        ELSE IF p2.sig = None THEN Err(p2.env, ExpectedFunction)
        ELSE Ok(handle_args_outputs(p2.env, Max(f.args, g.args),
                                    f.outputs + g.outputs))

\* Primitive::Bracket
instr_Bracket(e) ==
    LET p1 == pop_func(e)
        p2 == pop_func(p1.env)
        f == p1.sig[1]
        g == p2.sig[1]
    IN  IF p1.sig = None THEN Err(p1.env, ExpectedFunction)
        ELSE IF p2.sig = None THEN Err(p2.env, ExpectedFunction)
        ELSE Ok(handle_args_outputs(p2.env, f.args + g.args,
                                    f.outputs + g.outputs))

\* repeat, a known count: with c - 1 taken as c for a shrinking function
repeat_known_off_by_one(e, s, c) ==
    IF c > 0
    THEN
        IF s.args = s.outputs
        THEN Ok(handle_args_outputs(e, s.args, s.outputs))
        ELSE IF s.args < s.outputs
        THEN Ok(handle_args_outputs(e, s.args, c * (s.outputs - s.args) + s.args))
        ELSE Ok(handle_args_outputs(e, c * (s.args - s.outputs) + s.args, s.outputs))
    ELSE Ok(e)

\* repeat, a known count: the rule applied for the count 0 as well
repeat_known_zero_runs(e, s, c) ==
    IF s.args = s.outputs
    THEN Ok(handle_args_outputs(e, s.args, s.outputs))
    ELSE IF s.args < s.outputs
    THEN Ok(handle_args_outputs(e, s.args, c * (s.outputs - s.args) + s.args))
    ELSE Ok(handle_args_outputs(e, Max(0, (c - 1) * (s.args - s.outputs) + s.args),
                                s.outputs))

\* VirtualEnv::repeat, the count is a number without fractional part, c its
\* absolute value
repeat_known(e, s, c) ==
    IF c > 0
    THEN
        IF s.args = s.outputs
        THEN Ok(handle_args_outputs(e, s.args, s.outputs))
        ELSE IF s.args < s.outputs
        THEN Ok(handle_args_outputs(e, s.args, c * (s.outputs - s.args) + s.args))
        ELSE Ok(handle_args_outputs(e, (c - 1) * (s.args - s.outputs) + s.args,
                                    s.outputs))
    ELSE Ok(e)

\* repeat, an infinite count: a shrinking function tolerated inside an array
repeat_infinite_tolerant(e, s) ==
    IF s.args > s.outputs /\ e.array_stack = <<>>
    THEN Err(e, loop_overreach(SigCheckError_from(
            <<"repeat with infinity and a function with signature", s>>)))
    ELSE IF s.args < s.outputs /\ e.array_stack = <<>>
    THEN Err(e, loop_variable(SigCheckError_from(
            <<"repeat with infinity and a function with signature", s>>),
            s, TRUE))
    ELSE Ok(handle_sig(e, s))

\* VirtualEnv::repeat, the count is an infinity
repeat_infinite(e, s) ==
    IF s.args > s.outputs
    THEN Err(e, loop_overreach(SigCheckError_from(
            <<"repeat with infinity and a function with signature", s>>)))
    ELSE IF s.args < s.outputs /\ e.array_stack = <<>>
    THEN Err(e, loop_variable(SigCheckError_from(
            <<"repeat with infinity and a function with signature", s>>),
            s, TRUE))
    ELSE Ok(handle_sig(e, s))

\* repeat, an unknown count: a growing function refused inside an array too
repeat_unknown_strict(e, f) ==
    IF f.args = f.outputs THEN Ok(handle_sig(e, f))
    ELSE IF f.args > f.outputs
    THEN Err(e, loop_overreach(SigCheckError_from(
            <<"repeat with no number and a function with signature", f>>)))
    ELSE Err(e, loop_variable(SigCheckError_from(
            <<"repeat with no number and a function with signature", f>>),
            f, FALSE))

\* VirtualEnv::repeat, the count is not a number
repeat_unknown(e, f) ==
    IF f.args = f.outputs THEN Ok(handle_sig(e, f))
    ELSE IF f.args > f.outputs
    THEN Err(e, loop_overreach(SigCheckError_from(
            <<"repeat with no number and a function with signature", f>>)))
    ELSE IF e.array_stack = <<>>
    THEN Err(e, loop_variable(SigCheckError_from(
            <<"repeat with no number and a function with signature", f>>),
            f, FALSE))
    ELSE Ok(handle_sig(e, f))

\* VirtualEnv::repeat with the body never inverted
repeat_forward(e, f, n) ==
    IF n.t = "Num"
    THEN
        IF f64_fract_is_zero(n.n) THEN repeat_known(e, f, f64_abs_usize(n.n))
        ELSE IF f64_is_infinite(n.n) THEN repeat_infinite(e, f)
        ELSE Err(e, SigCheckError_from(<<"repeat without an integer or infinity">>))
    ELSE repeat_unknown(e, f)

\* repeat, with every number that is not infinite taken as a known count
repeat_any_number(e, f, n) ==
    IF n.t = "Num"
    THEN
        LET s == IF f64_ge_zero(n.n) THEN f ELSE inverse(f)
        IN  IF f64_is_infinite(n.n) THEN repeat_infinite(e, s)
            ELSE repeat_known(e, s, f64_abs_usize(n.n))
    ELSE repeat_unknown(e, f)

\* VirtualEnv::repeat
repeat(e, f, n) ==
    IF n.t = "Num"
    THEN
        LET s == IF f64_ge_zero(n.n) THEN f ELSE inverse(f)
        IN  IF f64_fract_is_zero(n.n) THEN repeat_known(e, s, f64_abs_usize(n.n))
            ELSE IF f64_is_infinite(n.n) THEN repeat_infinite(e, s)
            ELSE Err(e, SigCheckError_from(<<"repeat without an integer or infinity">>))
    ELSE repeat_unknown(e, f)

\* Primitive::Repeat
instr_Repeat(e) ==
    LET p == pop_func(e)
        q == pop(p.env)
    IN  IF p.sig = None THEN Err(p.env, ExpectedFunction)
        ELSE repeat(q.env, p.sig[1], q.val)

\* the function stack after k calls of pop_func, all of them successful
RECURSIVE pop_funcs(_, _)
pop_funcs(e, k) == IF k = 0 THEN e ELSE pop_funcs(pop_func(e).env, k - 1)

\* the last arm of Instr::Prim: a primitive without a rule of its own
instr_Prim(e, i) ==
    IF i.args = None
    THEN Err(e, SigCheckError_from(<<"has indeterminate args", i.prim>>))
    ELSE IF Len(e.function_stack) < unwrap_or(i.modifier_args, 0)
    THEN Err([e EXCEPT !.function_stack = <<>>], ExpectedFunction)
    ELSE IF i.outputs = None
    THEN Err(pop_funcs(e, unwrap_or(i.modifier_args, 0)),
             SigCheckError_from(<<"has indeterminate outputs", i.prim>>))
    ELSE Ok(handle_args_outputs(pop_funcs(e, unwrap_or(i.modifier_args, 0)),
                                i.args[1], i.outputs[1]))

\* pop_temp with the deficit of stack t recorded for every temp stack
pop_temp_shared_min(e, t) ==
    LET h == e.temp_heights[t] - 1
        e1 == [e EXCEPT
                 !.temp_heights[t] = h,
                 !.temp_min_heights =
                    [u \in TempStack |-> Max(e.temp_min_heights[u], Max(-h, 0))],
                 !.temp_stacks[t] = IF @ = <<>> THEN <<>> ELSE Front(@)]
    IN  [env |-> e1,
         val |-> IF e.temp_stacks[t] = <<>> THEN Other ELSE Last(e.temp_stacks[t])]

\* VirtualEnv::pop_temp: the environment after the pop and the value popped
pop_temp(e, t) ==
    LET h == e.temp_heights[t] - 1
        e1 == [e EXCEPT
                 !.temp_heights[t] = h,
                 !.temp_min_heights[t] = Max(@, Max(-h, 0)),
                 !.temp_stacks[t] = IF @ = <<>> THEN <<>> ELSE Front(@)]
    IN  [env |-> e1,
         val |-> IF e.temp_stacks[t] = <<>> THEN Other ELSE Last(e.temp_stacks[t])]

\* VirtualEnv::push_temp
push_temp(e, t, val) ==
    [e EXCEPT !.temp_heights[t] = @ + 1, !.temp_stacks[t] = Append(@, val)]

\* the loop of Instr::PushTemp: n values moved from the stack to temp stack t
RECURSIVE move_to_temp(_, _, _)
move_to_temp(e, t, n) ==
    IF n = 0 THEN e
    ELSE LET p == pop(e) IN move_to_temp(push_temp(p.env, t, p.val), t, n - 1)

\* the loop of Instr::PopTemp: n values moved from temp stack t to the stack
RECURSIVE move_from_temp(_, _, _)
move_from_temp(e, t, n) ==
    IF n = 0 THEN e
    ELSE LET p == pop_temp(e, t) IN move_from_temp(push(p.env, p.val), t, n - 1)

\* the first loop of Instr::CopyToTemp: the n values popped, the top one first
RECURSIVE pop_vals(_, _)
pop_vals(e, n) ==
    IF n = 0 THEN [env |-> e, vals |-> <<>>]
    ELSE LET p == pop(e)
             r == pop_vals(p.env, n - 1)
         IN  [env |-> r.env, vals |-> <<p.val>> \o r.vals]

\* the second loop of Instr::CopyToTemp: each value goes to temp stack t and
\* back on the stack
RECURSIVE copy_vals(_, _, _)
copy_vals(e, t, vals) ==
    IF vals = <<>> THEN e
    ELSE copy_vals(push(push_temp(e, t, Head(vals)), Head(vals)), t, Tail(vals))

\* Instr::PushTemp
instr_PushTemp(e, i) == Ok(set_min_height(move_to_temp(e, i.stack, i.count)))

\* Instr::CopyToTemp
instr_CopyToTemp(e, i) ==
    LET p == pop_vals(e, i.count)
    IN  Ok(copy_vals(set_min_height(p.env), i.stack, p.vals))

\* Instr::PopTemp
instr_PopTemp(e, i) == Ok(set_min_height(move_from_temp(e, i.stack, i.count)))

\* Instr::CallGlobal with the signature taken from the function stack
instr_CallGlobal_pops(e, i) ==
    IF i.call
    THEN LET p == pop_func(e)
         IN  IF p.sig = None THEN Err(p.env, ExpectedFunction)
             ELSE Ok(handle_sig(p.env, p.sig[1]))
    ELSE Ok([e EXCEPT !.function_stack = Append(e.function_stack, i.sig)])

\* Instr::CallGlobal
instr_CallGlobal(e, i) ==
    IF i.call THEN Ok(handle_sig(e, i.sig))
    ELSE Ok([e EXCEPT !.function_stack = Append(e.function_stack, i.sig)])

\* EndRandArray without the lowering of the minimum heights after the close
instr_EndRandArray_no_min(e) ==
    LET p == pop(e)
        e0 == p.env
    IN  IF e0.array_stack = <<>>
        THEN Err(e0, SigCheckError_from(<<"EndRandArray without BeginArray">>))
        ELSE
        LET bottom == Last(e0.array_stack)
            stack_bottom == Min(Max(bottom, 0), Len(e0.stack))
            e1 == [e0 EXCEPT !.array_stack = Front(e0.array_stack),
                             !.stack = SubSeq(e0.stack, 1, stack_bottom),
                             !.height = bottom]
        IN  Ok(push(e1, Other))

\* Instr::ImplPrim(EndRandArray)
instr_EndRandArray(e) ==
    LET p == pop(e)
        e0 == p.env
    IN  IF e0.array_stack = <<>>
        THEN Err(e0, SigCheckError_from(<<"EndRandArray without BeginArray">>))
        ELSE
        LET bottom == Last(e0.array_stack)
            stack_bottom == Min(Max(bottom, 0), Len(e0.stack))
            e1 == [e0 EXCEPT !.array_stack = Front(e0.array_stack),
                             !.stack = SubSeq(e0.stack, 1, stack_bottom),
                             !.height = bottom]
        IN  Ok(push(set_min_height(e1), Other))

\* a rule that pops k functions and handles the signature of the last
pop_funcs_handle_last(e, k) ==
    IF Len(e.function_stack) < k
    THEN Err([e EXCEPT !.function_stack = <<>>], ExpectedFunction)
    ELSE Ok(handle_sig(pop_funcs(e, k),
                       e.function_stack[Len(e.function_stack) - k + 1]))

\* a rule that pops k functions and handles the signature of the first
pop_funcs_handle_first(e, k) ==
    IF Len(e.function_stack) < k
    THEN Err([e EXCEPT !.function_stack = <<>>], ExpectedFunction)
    ELSE Ok(handle_sig(pop_funcs(e, k), Last(e.function_stack)))

\* Instr::Call with a missing function taken as a function of no effect
instr_Call_lenient(e) ==
    LET p == pop_func(e)
    IN  IF p.sig = None THEN Ok(p.env) ELSE Ok(handle_sig(p.env, p.sig[1]))

\* Instr::Call and Instr::CustomInverse
instr_Call(e) == pop_funcs_handle_first(e, 1)

\* Instr::Switch
instr_Switch(e, i) ==
    IF Len(e.function_stack) < i.count
    THEN Err([e EXCEPT !.function_stack = <<>>], ExpectedFunction)
    ELSE LET p == pop(pop_funcs(e, i.count))
             e1 == IF i.under_cond THEN push_temp(p.env, "Under", p.val) ELSE p.env
         IN  Ok(handle_sig(e1, i.sig))

\* Primitive::Astar and ImplPrimitive::AstarFirst
instr_Astar(e) ==
    LET e0 == pop(e).env
        fs == e0.function_stack
        n == Len(fs)
    IN  IF n < 3 THEN Err([e0 EXCEPT !.function_stack = <<>>], ExpectedFunction)
        ELSE Ok(handle_args_outputs(pop_funcs(e0, 3),
                    saturating_sub(Max(Max(fs[n].args, fs[n - 1].args), fs[n - 2].args), 1),
                    2))

\* one_func_sig with the args of With and Off padded and no output added
one_func_sig_pads_args_only(prim, f) ==
    CASE prim \in {"Reduce", "Scan", "ReduceContent", "ReduceDepth"} ->
            Signature(saturating_sub(f.args, f.outputs), f.outputs)
      [] prim \in {"Group", "Partition"} -> Signature(2, f.outputs)
      [] prim \in {"Spawn", "Pool"} -> Signature(f.args, 1)
      [] prim = "Un" -> inverse(f)
      [] prim = "Anti" -> unwrap_or(anti(f), f)
      [] prim = "Dip" -> Signature(f.args + 1, f.outputs + 1)
      [] prim = "Gap" -> Signature(f.args + 1, f.outputs)
      [] prim \in {"Both", "UnBoth"} -> Signature(f.args * 2, f.outputs * 2)
      [] prim \in {"On", "By"} -> Signature(f.args, f.outputs + 1)
      [] prim \in {"With", "Off"} ->
            IF f.args < 2 THEN Signature(2, f.outputs) ELSE f
      [] prim \in {"Below", "Above"} ->
            IF f.args < 2
            THEN Signature(f.args + 1, (f.args + 1) + (f.outputs + 1))
            ELSE Signature(f.args, f.args + f.outputs)

\* the signature a modifier of one function f applies: the arms of
\* VirtualEnv::instr that pop f and call handle_args_outputs
one_func_sig(prim, f) ==
    CASE prim \in {"Reduce", "Scan", "ReduceContent", "ReduceDepth"} ->
            Signature(saturating_sub(f.args, f.outputs), f.outputs)
      [] prim \in {"Group", "Partition"} -> Signature(2, f.outputs)
      [] prim \in {"Spawn", "Pool"} -> Signature(f.args, 1)
      [] prim = "Un" -> inverse(f)
      [] prim = "Anti" -> unwrap_or(anti(f), f)
      [] prim = "Dip" -> Signature(f.args + 1, f.outputs + 1)
      [] prim = "Gap" -> Signature(f.args + 1, f.outputs)
      [] prim \in {"Both", "UnBoth"} -> Signature(f.args * 2, f.outputs * 2)
      [] prim \in {"On", "By"} -> Signature(f.args, f.outputs + 1)
      [] prim \in {"With", "Off"} ->
            IF f.args < 2 THEN Signature(2, f.outputs + (2 - f.args)) ELSE f
      [] prim \in {"Below", "Above"} ->
            IF f.args < 2
            THEN Signature(f.args + 1, (f.args + 1) + (f.outputs + 1))
            ELSE Signature(f.args, f.args + f.outputs)

\* an arm that pops one function and handles its signature as it is
instr_one_func_plain(e, prim) ==
    LET p == pop_func(e)
    IN  IF p.sig = None THEN Err(p.env, ExpectedFunction)
        ELSE Ok(handle_sig(p.env, p.sig[1]))

\* an arm of VirtualEnv::instr that pops one function and handles the
\* signature made of it
instr_one_func(e, prim) ==
    LET p == pop_func(e)
    IN  IF p.sig = None THEN Err(p.env, ExpectedFunction)
        ELSE Ok(handle_sig(p.env, one_func_sig(prim, p.sig[1])))

\* Primitive::Do with the plain subtractions of the integers
instr_Do_unsaturated(e) ==
    LET p1 == pop_func(e)
        p2 == pop_func(p1.env)
        body == p1.sig[1]
        cond == p2.sig[1]
        copy_count == Max(0, cond.args - (cond.outputs - 1))
        cond_sub_sig == Signature(cond.args, cond.outputs + copy_count - 1)
        comp_sig == compose(body, cond_sub_sig)
    IN  IF p1.sig = None THEN Err(p1.env, ExpectedFunction)
        ELSE IF p2.sig = None THEN Err(p2.env, ExpectedFunction)
        ELSE IF comp_sig.args < comp_sig.outputs /\ p2.env.array_stack = <<>>
        THEN Err(p2.env, loop_variable(SigCheckError_from(
                <<"do with a function with signature", comp_sig>>), comp_sig, FALSE))
        ELSE Ok(handle_args_outputs(p2.env, comp_sig.args,
                    comp_sig.outputs + saturating_sub(cond_sub_sig.outputs, cond.args)))

\* Primitive::Do
instr_Do(e) ==
    LET p1 == pop_func(e)
        p2 == pop_func(p1.env)
        body == p1.sig[1]
        cond == p2.sig[1]
        copy_count == saturating_sub(cond.args, saturating_sub(cond.outputs, 1))
        cond_sub_sig == Signature(cond.args,
                                  saturating_sub(cond.outputs + copy_count, 1))
        comp_sig == compose(body, cond_sub_sig)
    IN  IF p1.sig = None THEN Err(p1.env, ExpectedFunction)
        ELSE IF p2.sig = None THEN Err(p2.env, ExpectedFunction)
        ELSE IF comp_sig.args < comp_sig.outputs /\ p2.env.array_stack = <<>>
        THEN Err(p2.env, loop_variable(SigCheckError_from(
                <<"do with a function with signature", comp_sig>>), comp_sig, FALSE))
        ELSE Ok(handle_args_outputs(p2.env, comp_sig.args,
                    comp_sig.outputs + saturating_sub(cond_sub_sig.outputs, cond.args)))

\* i32: the largest and the least value
I32Max == 2147483647
I32Min == -I32Max - 1
\* `x as i32` for a usize below 2^32: the low 32 bits, read as two's complement
as_i32(x) == IF x <= I32Max THEN x ELSE x - I32Max - I32Max - 2
\* `a += b` and `a -= b` on i32, a an Option: None once the exact result has
\* left the range of i32, where a build with overflow checks panics and a
\* build without them goes on with the wrapped value
i32_add(a, b) ==
    IF a = None THEN None
    ELSE IF b >= 0 /\ a[1] > I32Max - b THEN None
    ELSE IF b < 0 /\ a[1] < I32Min - b THEN None
    ELSE Some(a[1] + b)
i32_sub(a, b) ==
    IF a = None THEN None
    ELSE IF b >= 0 /\ a[1] < I32Min + b THEN None
    ELSE IF b < 0 /\ a[1] > I32Max + b THEN None
    ELSE Some(a[1] - b)
\* i32::min on the counter, None kept
i32_min(m, a) ==
    IF m = None \/ a = None THEN None ELSE Some(Min(m[1], a[1]))

\* naive_under_sig with the inverse of f taken whatever its outputs
naive_under_sig_always_inverse(f, g) ==
    LET f_inv == inverse(f)
        curr1 == i32_sub(Some(0), as_i32(f.args))
        min1 == i32_min(Some(0), curr1)
        curr2 == i32_sub(i32_add(curr1, as_i32(f.outputs)), as_i32(g.args))
        min2 == i32_min(min1, curr2)
        curr3 == i32_sub(i32_add(curr2, as_i32(g.outputs)), as_i32(f_inv.args))
        min3 == i32_min(min2, curr3)
        curr4 == i32_add(curr3, as_i32(f_inv.outputs))
        outputs == IF min3 = None THEN None ELSE i32_sub(curr4, min3[1])
    IN  IF outputs = None THEN None
        ELSE Some(Signature(IF min3[1] < 0 THEN -min3[1] ELSE min3[1], outputs[1]))

\* naive_under_sig: Some(signature), or None when the i32 arithmetic overflows
naive_under_sig(f, g) ==
    LET f_inv == IF f.outputs > 1 THEN inverse(f)
                 ELSE Signature(Min(f.args, 1), f.outputs)
        curr1 == i32_sub(Some(0), as_i32(f.args))
        min1 == i32_min(Some(0), curr1)
        curr2 == i32_sub(i32_add(curr1, as_i32(f.outputs)), as_i32(g.args))
        min2 == i32_min(min1, curr2)
        curr3 == i32_sub(i32_add(curr2, as_i32(g.outputs)), as_i32(f_inv.args))
        min3 == i32_min(min2, curr3)
        curr4 == i32_add(curr3, as_i32(f_inv.outputs))
        outputs == IF min3 = None THEN None ELSE i32_sub(curr4, min3[1])
    IN  IF outputs = None THEN None
        ELSE Some(Signature(IF min3[1] < 0 THEN -min3[1] ELSE min3[1], outputs[1]))

\* the end of a check whose naive_under_sig overflowed: not a SigCheckError
\* the code returns, but the panic of the build with overflow checks; the
\* build without them goes on with wrapped counts, which the model does not
\* follow
ArithmeticOverflow ==
    [message |-> <<"arithmetic overflow">>, kind |-> [k |-> "Panic"]]

\* Primitive::Under
instr_Under(e) ==
    LET p1 == pop_func(e)
        p2 == pop_func(p1.env)
    IN  IF p1.sig = None THEN Err(p1.env, ExpectedFunction)
        ELSE IF p2.sig = None THEN Err(p2.env, ExpectedFunction)
        ELSE
        LET s == naive_under_sig(p1.sig[1], p2.sig[1])
        IN  IF s = None THEN Err(p2.env, ArithmeticOverflow)
            ELSE Ok(handle_sig(p2.env, s[1]))

\* Primitive::Fill with the fill function handled whatever its outputs
instr_Fill_always_handles(e) ==
    LET p1 == pop_func(e)
        fill_sig == p1.sig[1]
        e1 == handle_sig(p1.env, fill_sig)
        e2 == handle_args_outputs(e1, fill_sig.outputs, 0)
        p2 == pop_func(e2)
    IN  IF p1.sig = None THEN Err(p1.env, ExpectedFunction)
        ELSE IF p2.sig = None THEN Err(p2.env, ExpectedFunction)
        ELSE Ok(handle_sig(p2.env, p2.sig[1]))

\* Primitive::Fill and ImplPrimitive::UnFill
instr_Fill(e) ==
    LET p1 == pop_func(e)
        fill_sig == p1.sig[1]
        e1 == IF fill_sig.outputs > 0 THEN handle_sig(p1.env, fill_sig) ELSE p1.env
        e2 == handle_args_outputs(e1, fill_sig.outputs, 0)
        p2 == pop_func(e2)
    IN  IF p1.sig = None THEN Err(p1.env, ExpectedFunction)
        ELSE IF p2.sig = None THEN Err(p2.env, ExpectedFunction)
        ELSE Ok(handle_sig(p2.env, p2.sig[1]))

\* Primitive::Dup, Flip, Pop, Over, Around
instr_stack_prim(e, prim) ==
    LET a == pop(e)
        b == pop(a.env)
    IN  CASE prim = "Dup" -> Ok(push(push(set_min_height(a.env), a.val), a.val))
          [] prim = "Flip" -> Ok(push(push(set_min_height(b.env), a.val), b.val))
          [] prim = "Pop" -> Ok(set_min_height(a.env))
          [] prim = "Over" ->
                Ok(push(push(push(set_min_height(b.env), b.val), a.val), b.val))
          [] prim = "Around" ->
                Ok(push(push(push(set_min_height(b.env), a.val), b.val), a.val))

\* Primitive::Join
instr_Join(e) ==
    LET a == pop(e)
        b == pop(a.env)
        joined ==
            CASE a.val.t = "Arr" /\ b.val.t = "Arr" -> Arr(a.val.items \o b.val.items)
              [] a.val.t = "Arr" -> Arr(Append(a.val.items, b.val))
              [] b.val.t = "Arr" -> Arr(<<a.val>> \o b.val.items)
              [] OTHER -> Arr(<<a.val, b.val>>)
    IN  Ok(push(set_min_height(b.env), joined))

\* Primitive::Dump
instr_Dump(e) ==
    LET p == pop_func(e)
    IN  IF p.sig = None THEN Err(p.env, ExpectedFunction) ELSE Ok(p.env)


\* RepeatWithInverse, the inverse compared after the count is popped and the
\* repeat rule applied
instr_RepeatWithInverse_late_test(e) ==
    LET p1 == pop_func(e)
        p2 == pop_func(p1.env)
        q == pop(p2.env)
        r == repeat(q.env, p1.sig[1], q.val)
    IN  IF p1.sig = None THEN Err(p1.env, ExpectedFunction)
        ELSE IF p2.sig = None THEN Err(p2.env, ExpectedFunction)
        ELSE IF r.err # None THEN r
        ELSE IF inverse(p1.sig[1]) # p2.sig[1]
        THEN Err(r.env, ambiguous(SigCheckError_from(
                <<"repeat inverse does not have inverse signature">>)))
        ELSE r

\* ImplPrimitive::RepeatWithInverse
instr_RepeatWithInverse(e) ==
    LET p1 == pop_func(e)
        p2 == pop_func(p1.env)
        q == pop(p2.env)
    IN  IF p1.sig = None THEN Err(p1.env, ExpectedFunction)
        ELSE IF p2.sig = None THEN Err(p2.env, ExpectedFunction)
        ELSE IF inverse(p1.sig[1]) # p2.sig[1]
        THEN Err(p2.env, ambiguous(SigCheckError_from(
                <<"repeat inverse does not have inverse signature">>)))
        ELSE repeat(q.env, p1.sig[1], q.val)

\* the last arm of Instr::ImplPrim: args and outputs are plain numbers
instr_ImplPrim(e, i) ==
    IF Len(e.function_stack) < unwrap_or(i.modifier_args, 0)
    THEN Err([e EXCEPT !.function_stack = <<>>], ExpectedFunction)
    ELSE Ok(push_n(set_min_height(
                pop_n(pop_funcs(e, unwrap_or(i.modifier_args, 0)), i.args[1])),
                i.outputs[1]))

\* Instr::Prim, the rules of the primitives named in VirtualEnv::instr
instr_Prim_named(e, i) ==
    CASE i.prim = "Astar" -> instr_Astar(e)
      [] i.prim \in {"Reduce", "Scan", "Group", "Partition", "Spawn", "Pool",
                     "Un", "Anti", "Dip", "Gap", "Both", "On", "By", "With",
                     "Off", "Below", "Above"} -> instr_one_func(e, i.prim)
      [] i.prim \in {"Each", "Rows", "Inventory", "Table", "Tuples", "Triangle",
                     "Fold", "Case", "Content", "Memo", "Comptime"} ->
            pop_funcs_handle_first(e, 1)
      [] i.prim = "Repeat" -> instr_Repeat(e)
      [] i.prim = "Do" -> instr_Do(e)
      [] i.prim = "Under" -> instr_Under(e)
      [] i.prim \in {"Try", "SetInverse"} -> pop_funcs_handle_first(e, 2)
      [] i.prim = "SetUnder" -> pop_funcs_handle_first(e, 3)
      [] i.prim = "Fill" -> instr_Fill(e)
      [] i.prim \in {"Dup", "Flip", "Pop", "Over", "Around"} ->
            instr_stack_prim(e, i.prim)
      [] i.prim = "Join" -> instr_Join(e)
      [] i.prim = "Dump" -> instr_Dump(e)
      [] i.prim = "Fork" -> instr_Fork(e)
      [] i.prim = "Bracket" -> instr_Bracket(e)
      [] OTHER -> instr_Prim(e, i)

\* Instr::ImplPrim
instr_ImplPrim_named(e, i) ==
    CASE i.prim = "EndRandArray" -> instr_EndRandArray(e)
      [] i.prim = "AstarFirst" -> instr_Astar(e)
      [] i.prim \in {"ReduceContent", "ReduceDepth", "UnBoth"} ->
            instr_one_func(e, i.prim)
      [] i.prim = "RepeatWithInverse" -> instr_RepeatWithInverse(e)
      [] i.prim = "UnFill" -> instr_Fill(e)
      [] OTHER -> instr_ImplPrim(e, i)

\* VirtualEnv::instr
instr(e, i) ==
    CASE i.op \in {"Comment", "SetOutputComment"} -> Ok(e)
      [] i.op = "Push" -> Ok(push(e, from_val(i.val)))
      [] i.op = "CallGlobal" -> instr_CallGlobal(e, i)
      [] i.op = "BindGlobal" -> Ok(pop(e).env)
      [] i.op = "BeginArray" ->
            Ok([e EXCEPT !.array_stack = Append(e.array_stack, e.height)])
      [] i.op = "EndArray" -> instr_EndArray(e)
      [] i.op \in {"Call", "CustomInverse"} -> instr_Call(e)
      [] i.op = "PushTemp" -> instr_PushTemp(e, i)
      [] i.op = "CopyToTemp" -> instr_CopyToTemp(e, i)
      [] i.op = "PopTemp" -> instr_PopTemp(e, i)
      [] i.op \in {"Label", "ValidateType"} -> Ok(handle_args_outputs(e, 1, 1))
      [] i.op = "PushFunc" ->
            Ok([e EXCEPT !.function_stack = Append(e.function_stack, i.sig)])
      [] i.op = "Switch" -> instr_Switch(e, i)
      [] i.op = "Format" ->
            Ok(handle_args_outputs(e, saturating_sub(i.parts, 1), 1))
      [] i.op = "MatchFormatPattern" ->
            Ok(handle_args_outputs(e, 1, saturating_sub(i.parts, 1)))
      [] i.op = "Dynamic" -> Ok(handle_sig(e, i.sig))
      [] i.op = "Unpack" -> Ok(handle_args_outputs(e, 1, i.count))
      [] i.op = "TouchStack" -> Ok(handle_args_outputs(e, i.count, i.count))
      [] i.op = "Prim" -> instr_Prim_named(e, i)
      [] i.op = "ImplPrim" -> instr_ImplPrim_named(e, i)

\* VirtualEnv::instrs with the loop going on after an Err, the last one kept
RECURSIVE instrs_loop_keep_going(_, _)
instrs_loop_keep_going(e, slice) ==
    IF slice = <<>> THEN Ok(e)
    ELSE LET r == instr(e, Head(slice))
             rest == instrs_loop_keep_going(r.env, Tail(slice))
         IN  IF rest.err # None \/ r.err = None THEN rest ELSE Err(rest.env, r.err[1])

\* VirtualEnv::instrs: the loop over a slice, stopped by the first Err
RECURSIVE instrs_loop(_, _)
instrs_loop(e, slice) ==
    IF slice = <<>> THEN Ok(e)
    ELSE LET r == instr(e, Head(slice))
         IN  IF r.err # None THEN r ELSE instrs_loop(r.env, Tail(slice))

\* VirtualEnv::from_instrs
from_instrs(slice) == instrs_loop(NewEnv, slice)

\* Result<Signature, SigCheckError>
OkSig(s) == [ok |-> TRUE, sig |-> s]
ErrSig(x) == [ok |-> FALSE, err |-> x]

\* the slice is one primitive whose args and outputs are both declared
is_single_static_prim(slice) ==
    /\ Len(slice) = 1
    /\ slice[1].op = "Prim"
    /\ slice[1].args # None
    /\ slice[1].outputs # None

\* instrs_signature with the function operands left out of the args
instrs_signature_no_modifier_args(slice) ==
    IF is_single_static_prim(slice)
    THEN OkSig(Signature(slice[1].args[1], slice[1].outputs[1]))
    ELSE LET r == from_instrs(slice)
         IN  IF r.err # None THEN ErrSig(r.err[1]) ELSE OkSig(sig(r.env))

\* instrs_signature
instrs_signature(slice) ==
    IF is_single_static_prim(slice)
    THEN OkSig(Signature(slice[1].args[1] + unwrap_or(slice[1].modifier_args, 0),
                         slice[1].outputs[1]))
    ELSE LET r == from_instrs(slice)
         IN  IF r.err # None THEN ErrSig(r.err[1]) ELSE OkSig(sig(r.env))

----------------------------------------------------------------------------
(* instrs_all_signatures and its cache *)

\* VirtualEnv::temp_signatures
temp_signatures(e) ==
    [t \in TempStack |-> derive_sig(e.temp_min_heights[t], e.temp_heights[t])]

\* struct AllSignatures, as instrs_all_signatures fills it from an environment
AllSignatures(e) ==
    [stack |-> sig(e),
     temps |-> temp_signatures(e),
     functions_left |-> Len(e.function_stack),
     array_stack |-> Len(e.array_stack)]

\* Result<AllSignatures, SigCheckError>: the Ok side
OkAll(sigs) == [ok |-> TRUE, sigs |-> sigs]

\* what Instr's Hash feeds the hasher: the variant and the payload
instr_digest(i) ==
    CASE i.op = "Push" ->
            1 + Len(i.val.shape) + Len(i.val.data)
                + (IF i.val.ty = "Num" THEN 0 ELSE 3)
      [] i.op \in {"PushFunc", "Dynamic"} ->
            2 + 3 * i.sig.args + 5 * i.sig.outputs
              + (IF "body" \in DOMAIN i THEN i.body ELSE 0)
      [] i.op = "CallGlobal" ->
            3 + 3 * i.sig.args + 5 * i.sig.outputs + (IF i.call THEN 1 ELSE 0)
      [] i.op \in {"PushTemp", "CopyToTemp", "PopTemp"} ->
            (IF i.op = "PushTemp" THEN 4 ELSE IF i.op = "PopTemp" THEN 6 ELSE 8)
                + 7 * i.count + (IF i.stack = "Under" THEN 1 ELSE 0)
      [] i.op = "Switch" -> 5 + i.count + 3 * i.sig.args + 5 * i.sig.outputs
      [] i.op \in {"Format", "MatchFormatPattern"} -> 7 + i.parts
      [] i.op \in {"Unpack", "TouchStack"} -> 9 + i.count
      [] i.op = "Prim" ->
            10 + unwrap_or(i.args, 0) + 3 * unwrap_or(i.outputs, 0)
               + 5 * unwrap_or(i.modifier_args, 0)
      [] i.op = "ImplPrim" ->
            11 + i.args[1] + 3 * i.outputs[1] + 5 * unwrap_or(i.modifier_args, 0)
      [] i.op = "BeginArray" -> 12
      [] i.op = "EndArray" -> 13
      [] OTHER -> 14

\* the hasher fed the instructions of a slice one after the other
RECURSIVE hash_from(_, _)
hash_from(h, slice) ==
    IF slice = <<>> THEN h
    ELSE hash_from((h + h + h + instr_digest(Head(slice))) % HashSpace, Tail(slice))

\* DefaultHasher over the slice (its length, then its instructions): a fixed
\* function of the content with fewer values than there are slices
hash(slice) == hash_from(Len(slice) % HashSpace, slice)

\* HashMap::insert
insert(c, h, sigs) == [k \in DOMAIN c \cup {h} |-> IF k = h THEN sigs ELSE c[k]]

\* the body of CACHE.with in instrs_all_signatures, for the hash h of the
\* slice and the outcome r of VirtualEnv::from_instrs if it is called: the
\* cache it leaves, what it returns, whether from_instrs ran, and the
\* environment from_instrs left
with_cache(c, h, r) ==
    IF h \in DOMAIN c
    THEN [cache |-> c, result |-> OkAll(c[h]), ran |-> FALSE, env |-> NewEnv]
    ELSE IF r.err # None
    THEN [cache |-> c, result |-> ErrSig(r.err[1]), ran |-> TRUE, env |-> r.env]
    ELSE [cache |-> insert(c, h, AllSignatures(r.env)),
          result |-> OkAll(AllSignatures(r.env)), ran |-> TRUE, env |-> r.env]

\* instrs_all_signatures on a cache that lost its entries before the call
instrs_all_signatures_forgetful(c, slice) ==
    with_cache(<<>>, hash(slice), from_instrs(slice))

\* instrs_all_signatures on cache c
instrs_all_signatures(c, slice) == with_cache(c, hash(slice), from_instrs(slice))

\* the test of instrs_clean_signature without the temp signatures
is_clean_no_temps(sigs) ==
    ~ (sigs.functions_left # 0 \/ sigs.array_stack # 0)

\* the test of instrs_clean_signature on a bundle
is_clean(sigs) ==
    ~ (\/ sigs.functions_left # 0
       \/ \E t \in TempStack : sigs.temps[t] # Signature(0, 0)
       \/ sigs.array_stack # 0)

\* what instrs_clean_signature makes of the outcome a of instrs_all_signatures
clean_of(a) ==
    [a EXCEPT !.result =
        IF ~a.result.ok THEN None
        ELSE IF ~is_clean(a.result.sigs) THEN None
        ELSE Some(a.result.sigs.stack)]

\* instrs_clean_signature on cache c
instrs_clean_signature(c, slice) == clean_of(instrs_all_signatures(c, slice))

\* The functions of an assembly, by index: the declared signature of each and
\* its body.  Functions 1 and 3 are clean through and through; the body of 2
\* leaves a value on a temp stack; 4 calls 2 and 5 calls 4, their own slices
\* being clean.
Function_signature(k) ==
    CASE k = 1 -> Signature(0, 1)
      [] k = 2 -> Signature(1, 0)
      [] k = 3 -> Signature(0, 1)
      [] k = 4 -> Signature(1, 0)
      [] k = 5 -> Signature(1, 0)
\* Instr::PushFunc of function k of the assembly
PushFuncOf(k) == [op |-> "PushFunc", sig |-> Function_signature(k), body |-> k]
\* Function::instrs(asm)
Function_instrs(k) ==
    CASE k = 1 -> <<Push(Value("Char", <<>>, <<"c">>))>>
      [] k = 2 -> <<PushTemp(1, "Inline")>>
      [] k = 3 -> <<PushFuncOf(1), Call>>
      [] k = 4 -> <<PushFuncOf(2), Call>>
      [] k = 5 -> <<PushFuncOf(4), Call>>

\* the functions a slice pushes, in the order of the slice
RECURSIVE pushed_functions(_)
pushed_functions(slice) ==
    IF slice = <<>> THEN <<>>
    ELSE IF Head(slice).op = "PushFunc"
    THEN <<Head(slice).body>> \o pushed_functions(Tail(slice))
    ELSE pushed_functions(Tail(slice))

\* VirtualEnv::from_instrs on the body of each function of the assembly
body_from_instrs == [k \in 1..5 |-> from_instrs(Function_instrs(k))]

\* instrs_clean_signature on the body of function k, on cache c
body_clean_signature(c, k) ==
    clean_of(with_cache(c, hash(Function_instrs(k)), body_from_instrs[k]))

\* the calls of instrs_clean_signature_asm on bodies with the functions the
\* bodies push left unchecked
RECURSIVE bodies_clean_shallow(_, _)
bodies_clean_shallow(c, todo) ==
    IF todo = <<>> THEN [cache |-> c, ok |-> TRUE]
    ELSE LET a == body_clean_signature(c, Head(todo))
         IN  IF a.result = None THEN [cache |-> a.cache, ok |-> FALSE]
             ELSE bodies_clean_shallow(a.cache, Tail(todo))

\* the calls instrs_clean_signature_asm makes of itself, on cache c: todo holds
\* the functions whose bodies are still to check, in the order the recursion
\* of the code reaches them (a body, then the bodies of the functions it
\* pushes, then the next body); the first body that is not clean ends them all
RECURSIVE bodies_clean(_, _)
bodies_clean(c, todo) ==
    IF todo = <<>> THEN [cache |-> c, ok |-> TRUE]
    ELSE LET a == body_clean_signature(c, Head(todo))
         IN  IF a.result = None THEN [cache |-> a.cache, ok |-> FALSE]
             ELSE bodies_clean(a.cache,
                    pushed_functions(Function_instrs(Head(todo))) \o Tail(todo))

\* what instrs_clean_signature_asm returns, given the outcome a of
\* instrs_clean_signature on the slice and the outcome b of its calls on the
\* bodies, which it makes only if the slice is clean
clean_asm_of(a, b) ==
    IF a.result = None THEN [cache |-> a.cache, result |-> None]
    ELSE [cache |-> b.cache, result |-> IF b.ok THEN a.result ELSE None]

----------------------------------------------------------------------------
(* The state machine *)

Init ==
    /\ instrs = <<>>
    /\ pc = "run"
    /\ stack = NewEnv.stack
    /\ height = NewEnv.height
    /\ temp_stacks = NewEnv.temp_stacks
    /\ temp_heights = NewEnv.temp_heights
    /\ function_stack = NewEnv.function_stack
    /\ array_stack = NewEnv.array_stack
    /\ min_height = NewEnv.min_height
    /\ temp_min_heights = NewEnv.temp_min_heights
    /\ err = None
    /\ result = None
    /\ cache = <<>>
    /\ calls = <<>>

env_vars == <<stack, height, temp_stacks, temp_heights, function_stack,
              array_stack, min_height, temp_min_heights>>

\* a completed check: the function called, its slice, what it returned and
\* whether it ran VirtualEnv::from_instrs
Completed(fn, slice, r, ran) ==
    [fn |-> fn, slice |-> slice, result |-> r, ran |-> ran]

\* the variables take the fields of environment e
Install(e) ==
    /\ stack' = e.stack
    /\ height' = e.height
    /\ temp_stacks' = e.temp_stacks
    /\ temp_heights' = e.temp_heights
    /\ function_stack' = e.function_stack
    /\ array_stack' = e.array_stack
    /\ min_height' = e.min_height
    /\ temp_min_heights' = e.temp_min_heights

\* one iteration of the loop of VirtualEnv::instrs on instruction i, the next
\* one of a slice of at most n instructions; an Err ends the loop
Step(i, n) ==
    /\ pc = "run"
    /\ err = None
    /\ Len(instrs) < n
    /\ LET r == instr(Env, i)
       IN  Install(r.env) /\ err' = r.err
    /\ instrs' = Append(instrs, i)
    /\ UNCHANGED <<pc, result, cache, calls>>

\* instrs_signature on a slice of one primitive with declared args and outputs:
\* it returns before any VirtualEnv exists
Shortcut(prims) ==
    /\ pc = "run"
    /\ instrs = <<>>
    /\ \E i \in prims :
          /\ is_single_static_prim(<<i>>)
          /\ instrs' = <<i>>
          /\ result' = Some(instrs_signature(<<i>>))
          /\ calls' = Append(calls, Completed("instrs_signature", <<i>>,
                                              instrs_signature(<<i>>), FALSE))
    /\ pc' = "done"
    /\ UNCHANGED <<env_vars, err, cache>>

\* instrs_signature on any other slice: the slice ends here, and the
\* result is the Err of from_instrs or env.sig()
Return ==
    /\ pc = "run"
    /\ ~is_single_static_prim(instrs)
    /\ LET r == IF err # None THEN ErrSig(err[1]) ELSE OkSig(sig(Env))
       IN  /\ result' = Some(r)
           /\ calls' = Append(calls, Completed("instrs_signature", instrs, r, TRUE))
    /\ pc' = "done"
    /\ UNCHANGED <<instrs, env_vars, err, cache>>

\* instrs_all_signatures whose lookup missed: the slice ends here, the result
\* is the Err of from_instrs, or the bundle of the environment, which is
\* stored under the hash of the slice
ReturnAll ==
    /\ pc = "run"
    /\ hash(instrs) \notin DOMAIN cache
    /\ LET r == IF err # None THEN ErrSig(err[1]) ELSE OkAll(AllSignatures(Env))
       IN  /\ result' = Some(r)
           /\ calls' = Append(calls, Completed("instrs_all_signatures", instrs, r, TRUE))
    /\ cache' = IF err # None THEN cache
                ELSE insert(cache, hash(instrs), AllSignatures(Env))
    /\ pc' = "done"
    /\ UNCHANGED <<instrs, env_vars, err>>

\* instrs_clean_signature whose lookup missed: the slice ends here, and the
\* result is made of the outcome of the simulation
ReturnClean ==
    /\ pc = "run"
    /\ hash(instrs) \notin DOMAIN cache
    /\ \E a \in {clean_of(with_cache(cache, hash(instrs), [env |-> Env, err |-> err]))} :
          /\ result' = Some(a.result)
          /\ cache' = a.cache
          /\ calls' = Append(calls, Completed("instrs_clean_signature", instrs,
                                              a.result, a.ran))
    /\ pc' = "done"
    /\ UNCHANGED <<instrs, env_vars, err>>

(* The inputs: literals, function signatures and primitives *)

CharValue == Value("Char", <<>>, <<"c">>)
PlainLiterals == {NumValue(F64Int(1)), CharValue}

\* primitives without function operands, by declared args and outputs
PlainSigs == {Signature(0, 1), Signature(1, 1), Signature(2, 1),
              Signature(1, 2), Signature(2, 0)}
PlainPrims == {Prim("Plain", Some(s.args), Some(s.outputs), None) : s \in PlainSigs}
\* primitives that take one function operand
ModifierPrims == {Prim("Plain", Some(s.args), Some(s.outputs), Some(1)) : s \in PlainSigs}
\* a primitive whose args are not declared
IndeterminatePrim == Prim("Plain", None, None, None)

\* Instr::Push
StepPush ==
    /\ pc = "run"
    /\ \E v \in PlainLiterals : Step(Push(v), MaxLen)
\* Instr::Prim, a primitive with declared args and outputs and no operands
StepPrim ==
    /\ pc = "run"
    /\ \E i \in PlainPrims : Step(i, MaxLen)
\* Instr::Prim, a primitive with a function operand or without declared args
StepModifierPrim ==
    /\ pc = "run"
    /\ \E i \in ModifierPrims \cup {IndeterminatePrim} : Step(i, MaxLen)
\* instrs_signature on a one-primitive slice
ShortcutPrim ==
    /\ pc = "run"
    /\ Shortcut(PlainPrims \cup ModifierPrims)

\* checks of slices of literal pushes and primitives
NextStraight == StepPush \/ StepPrim \/ StepModifierPrim \/ ShortcutPrim \/ Return
SpecStraight == Init /\ [][NextStraight]_vars

(* Checks of slices with array literals *)

BinaryPrim == Prim("Plain", Some(2), Some(1), None)

\* Instr::BeginArray
StepBeginArray ==
    /\ pc = "run"
    /\ Step(BeginArray, MaxArrayLen)
\* Instr::EndArray
StepEndArray ==
    /\ pc = "run"
    /\ Step(EndArray, MaxArrayLen)
\* Instr::Push inside or outside an array literal
StepArrayPush ==
    /\ pc = "run"
    /\ \E v \in PlainLiterals : Step(Push(v), MaxArrayLen)
\* Instr::Prim, a binary primitive
StepBinaryPrim ==
    /\ pc = "run"
    /\ Step(BinaryPrim, MaxArrayLen)
\* instrs_signature on the slice of one binary primitive
ShortcutBinaryPrim ==
    /\ pc = "run"
    /\ Shortcut({BinaryPrim})

NextArray ==
    \/ StepBeginArray \/ StepEndArray \/ StepArrayPush \/ StepBinaryPrim
    \/ ShortcutBinaryPrim \/ Return
SpecArray == Init /\ [][NextArray]_vars

(* Checks of slices with function operands: Fork and Bracket *)

\* the signatures of the functions pushed (Function::signature)
FuncSigs == PlainSigs

ForkPrim == Prim("Fork", None, None, Some(2))
BracketPrim == Prim("Bracket", None, None, Some(2))
RepeatPrim == Prim("Repeat", None, None, Some(1))

\* Instr::PushFunc
StepPushFunc ==
    /\ pc = "run"
    /\ \E f \in FuncSigs : Step(PushFunc(f), MaxLen)
\* Primitive::Fork
StepFork ==
    /\ pc = "run"
    /\ Step(ForkPrim, MaxLen)
\* Primitive::Bracket
StepBracket ==
    /\ pc = "run"
    /\ Step(BracketPrim, MaxLen)

NextFork == StepPush \/ StepPushFunc \/ StepFork \/ StepBracket \/ Return
SpecFork == Init /\ [][NextFork]_vars

(* Checks of slices with Repeat *)

\* a rank-1 literal of two numbers
ListValue == Value("Num", <<2>>, <<F64Int(1), F64Int(2)>>)

\* the literals pushed as counts: integers, the infinities, a character, a list
CountLiterals ==
    {NumValue(F64Int(n)) : n \in 0..MaxCount}
        \cup {NumValue(F64Inf), NumValue(F64NegInf), CharValue, ListValue}

\* Instr::Push of a count
StepPushCount ==
    /\ pc = "run"
    /\ \E v \in CountLiterals : Step(Push(v), MaxLen)
\* Primitive::Repeat
StepRepeat ==
    /\ pc = "run"
    /\ Step(RepeatPrim, MaxLen)
\* Instr::BeginArray before a Repeat
StepOpenArray ==
    /\ pc = "run"
    /\ Step(BeginArray, MaxLen)

NextRepeat == StepPushCount \/ StepPushFunc \/ StepRepeat \/ StepOpenArray \/ Return
SpecRepeat == Init /\ [][NextRepeat]_vars

(* Checks of slices with Do *)

\* the signatures of the condition and body functions of a Do
DoSigs == {Signature(a, o) : a \in {0, 1, 2}, o \in {0, 1, 2}}
DoPrim == Prim("Do", None, None, Some(2))

\* Instr::PushFunc of a condition or a body
StepPushDoFunc ==
    /\ pc = "run"
    /\ \E f \in DoSigs : Step(PushFunc(f), MaxLen)
\* Primitive::Do
StepDo ==
    /\ pc = "run"
    /\ Step(DoPrim, MaxLen)

NextDo == StepPush \/ StepPushDoFunc \/ StepDo \/ StepOpenArray \/ Return
SpecDo == Init /\ [][NextDo]_vars

(* Checks of slices with Under *)

\* the signatures of the two functions of an Under
UnderSigs == {Signature(a, o) : a \in {0, 1, 2}, o \in {0, 1, 2}}
UnderPrim == Prim("Under", None, None, Some(2))

\* Instr::PushFunc of a function of an Under
StepPushUnderFunc ==
    /\ pc = "run"
    /\ \E f \in UnderSigs : Step(PushFunc(f), MaxLen)
\* Primitive::Under
StepUnder ==
    /\ pc = "run"
    /\ Step(UnderPrim, MaxLen)

NextUnder == StepPush \/ StepPushUnderFunc \/ StepUnder \/ Return
SpecUnder == Init /\ [][NextUnder]_vars

(* Checks of slices with every instruction that takes function operands *)

\* the instructions that take function operands: the modifiers
\* VirtualEnv::instr names, with the number of functions they pop, a modifier
\* it does not name, Call, CustomInverse and Switch
OperandInstrs ==
    {Prim(p, None, None, Some(1)) :
        p \in {"Reduce", "Scan", "Each", "Rows", "Inventory", "Table", "Tuples",
               "Triangle", "Group", "Partition", "Spawn", "Pool", "Repeat",
               "Un", "Anti", "Fold", "Case", "Content", "Memo", "Comptime",
               "Dump", "Dip", "Gap", "Both", "On", "By", "With", "Off",
               "Below", "Above"}}
        \cup {Prim(p, None, None, Some(2)) :
                p \in {"Do", "Under", "Try", "Fill", "SetInverse", "Fork",
                       "Bracket"}}
        \cup {Prim(p, None, None, Some(3)) : p \in {"SetUnder", "Astar"}}
        \cup {ImplPrim(p, 0, 1, Some(1)) :
                p \in {"ReduceContent", "ReduceDepth", "UnBoth"}}
        \cup {ImplPrim(p, 0, 1, Some(2)) : p \in {"RepeatWithInverse", "UnFill"}}
        \cup {ImplPrim("AstarFirst", 1, 2, Some(3)),
              ImplPrim("Plain", 1, 1, Some(1)), Call, CustomInverse,
              Switch(1, Signature(1, 1), FALSE), Switch(2, Signature(2, 1), TRUE)}
        \cup ModifierPrims

\* the signatures of the functions pushed as operands
OperandSigs == {Signature(1, 1), Signature(2, 1)}

\* Instr::PushFunc of an operand
StepPushOperand ==
    /\ pc = "run"
    /\ \E f \in OperandSigs : Step(PushFunc(f), MaxOperandLen)
\* an instruction that pops its function operands from the function stack
StepOperandInstr ==
    /\ pc = "run"
    /\ \E i \in OperandInstrs : Step(i, MaxOperandLen)
\* Instr::Push before an instruction that takes operands
StepPushValue ==
    /\ pc = "run"
    /\ Step(Push(CharValue), MaxOperandLen)
\* Instr::BeginArray before an instruction that takes operands
StepMarkArray ==
    /\ pc = "run"
    /\ Step(BeginArray, MaxOperandLen)
\* Instr::EndArray, with or without an open marker
StepCloseArray ==
    /\ pc = "run"
    /\ Step(EndArray, MaxOperandLen)
\* instrs_signature on the slice of one primitive that takes a function
ShortcutModifierPrim ==
    /\ pc = "run"
    /\ Shortcut(ModifierPrims)

NextOperand ==
    \/ StepPushValue \/ StepPushOperand \/ StepOperandInstr \/ StepMarkArray
    \/ StepCloseArray \/ ShortcutModifierPrim \/ Return \/ ReturnAll
SpecOperand == Init /\ [][NextOperand]_vars

(* Checks of slices that call and push global functions *)

\* the signatures of the globals
GlobalSigs == {Signature(0, 1), Signature(1, 2), Signature(2, 2)}

\* Instr::CallGlobal with call = true
StepCallGlobal ==
    /\ pc = "run"
    /\ \E s \in GlobalSigs : Step(CallGlobal(TRUE, s), MaxOperandLen)
\* Instr::CallGlobal with call = false
StepPushGlobal ==
    /\ pc = "run"
    /\ \E s \in GlobalSigs : Step(CallGlobal(FALSE, s), MaxOperandLen)
\* Instr::Call
StepCall ==
    /\ pc = "run"
    /\ Step(Call, MaxOperandLen)

NextGlobal ==
    \/ StepPushValue \/ StepPushOperand \/ StepCallGlobal \/ StepPushGlobal
    \/ StepCall \/ Return
SpecGlobal == Init /\ [][NextGlobal]_vars

(* Checks of slices that move values to and from the temp stacks *)

\* the counts of the moves
TempCounts == {1, 2}

\* Instr::PushTemp
StepPushTemp ==
    /\ pc = "run"
    /\ \E c \in TempCounts, t \in TempStack : Step(PushTemp(c, t), MaxOperandLen)
\* Instr::PopTemp
StepPopTemp ==
    /\ pc = "run"
    /\ \E c \in TempCounts, t \in TempStack : Step(PopTemp(c, t), MaxOperandLen)
\* Instr::CopyToTemp
StepCopyToTemp ==
    /\ pc = "run"
    /\ \E c \in TempCounts, t \in TempStack : Step(CopyToTemp(c, t), MaxOperandLen)

NextTemp ==
    \/ StepPushValue \/ StepPushTemp \/ StepPopTemp \/ StepCopyToTemp
    \/ StepPushOperand \/ StepMarkArray \/ ReturnClean
SpecTemp == Init /\ [][NextTemp]_vars

(* Checks made one after the other on one thread: each action is a whole   *)
(* call of instrs_all_signatures or instrs_signature on a slice.           *)

\* the instructions of the slices checked: a push, a binary primitive, and
\* EndArray, which fails without a marker
CachedInstrs == {Push(CharValue), BinaryPrim, EndArray}
\* the slices checked
CachedSlices ==
    {<<>>} \cup {<<i>> : i \in CachedInstrs}
           \cup {<<i, j>> : i \in CachedInstrs, j \in CachedInstrs}

\* no check is running and the thread may make another one
Idle == (pc = "done" \/ instrs = <<>>) /\ Len(calls) < MaxCalls

\* the Err of a Result, as the Option held in err
err_of(r) == IF r.ok THEN None ELSE Some(r.err)

\* a completed call of instrs_all_signatures on slice s with outcome a
Returned(s, a) ==
    /\ instrs' = s
    /\ Install(a.env)
    /\ err' = err_of(a.result)
    /\ result' = Some(a.result)
    /\ cache' = a.cache
    /\ calls' = Append(calls, Completed("instrs_all_signatures", s, a.result, a.ran))
    /\ pc' = "done"

\* a whole call of instrs_all_signatures on slice s
CallAllSignatures(s) == Returned(s, instrs_all_signatures(cache, s))

\* instrs_all_signatures finds the hash of the slice in the cache
AllSignaturesHit ==
    /\ Idle
    /\ \E s \in CachedSlices : hash(s) \in DOMAIN cache /\ CallAllSignatures(s)
\* instrs_all_signatures simulates the slice and stores its bundle
AllSignaturesMiss ==
    /\ Idle
    /\ \E s \in CachedSlices :
          /\ hash(s) \notin DOMAIN cache
          /\ from_instrs(s).err = None
          /\ CallAllSignatures(s)
\* instrs_all_signatures simulates the slice and returns the Err
AllSignaturesFail ==
    /\ Idle
    /\ \E s \in CachedSlices :
          /\ hash(s) \notin DOMAIN cache
          /\ from_instrs(s).err # None
          /\ CallAllSignatures(s)
\* a completed call of instrs_signature on slice s: r is its result, e and x
\* the environment and the Err of its simulation
ReturnedSignature(s, r, e, x) ==
    /\ instrs' = s
    /\ Install(e)
    /\ err' = x
    /\ result' = Some(r)
    /\ calls' = Append(calls, Completed("instrs_signature", s, r,
                                        ~is_single_static_prim(s)))
    /\ pc' = "done"
    /\ UNCHANGED cache

\* a whole call of instrs_signature
CallSignature ==
    /\ Idle
    /\ \E s \in CachedSlices :
          IF is_single_static_prim(s)
          THEN ReturnedSignature(s, instrs_signature(s), NewEnv, None)
          ELSE \E r \in {from_instrs(s)} :
                  ReturnedSignature(s, IF r.err # None THEN ErrSig(r.err[1])
                                       ELSE OkSig(sig(r.env)), r.env, r.err)

NextCache == AllSignaturesHit \/ AllSignaturesMiss \/ AllSignaturesFail \/ CallSignature
SpecCache == Init /\ [][NextCache]_vars


(* Checks of slices with Try, Case, Fill, With, Reduce and Repeat, whose    *)
(* functions have every signature of up to two arguments and two outputs    *)

\* the signatures of the functions pushed
ModifierSigs == {Signature(a, o) : a \in {0, 1, 2}, o \in {0, 1, 2}}

\* the counts pushed: the negative integers and the negative infinity
NegativeCounts ==
    {NumValue(F64Int(-n)) : n \in 1..MaxCount} \cup {NumValue(F64NegInf)}

\* the modifiers of these checks
ModifierInstrs ==
    {Prim("Try", None, None, Some(2)), Prim("Case", None, None, Some(1)),
     Prim("Fill", None, None, Some(2)), ImplPrim("UnFill", 0, 0, Some(2)),
     Prim("With", None, None, Some(1)), Prim("Off", None, None, Some(1)),
     Prim("Reduce", None, None, Some(1)), Prim("Scan", None, None, Some(1)),
     ImplPrim("ReduceContent", 1, 1, Some(1)),
     ImplPrim("ReduceDepth", 1, 1, Some(1)), RepeatPrim}

\* Instr::PushFunc of a function of any of the signatures
StepPushModifierFunc ==
    /\ pc = "run"
    /\ \E f \in ModifierSigs : Step(PushFunc(f), MaxOperandLen)
\* Instr::Push of a negative count
StepPushNegativeCount ==
    /\ pc = "run"
    /\ \E v \in NegativeCounts : Step(Push(v), MaxOperandLen)
\* Instr::Prim and Instr::ImplPrim of a modifier
StepModifier ==
    /\ pc = "run"
    /\ \E i \in ModifierInstrs : Step(i, MaxOperandLen)

NextModifier ==
    \/ StepPushValue \/ StepPushModifierFunc \/ StepPushNegativeCount
    \/ StepModifier \/ StepMarkArray \/ Return
SpecModifier == Init /\ [][NextModifier]_vars

(* Checks of slices with nested array literals closed by EndArray or by     *)
(* EndRandArray                                                             *)

EndRandArrayPrim == ImplPrim("EndRandArray", 1, 1, None)

\* Instr::EndArray closing a literal of a short slice
StepShutArray ==
    /\ pc = "run"
    /\ Step(EndArray, MaxLen)
\* Instr::ImplPrim(EndRandArray)
StepEndRandArray ==
    /\ pc = "run"
    /\ Step(EndRandArrayPrim, MaxLen)

NextRandArray ==
    \/ StepPush \/ StepPrim \/ StepOpenArray \/ StepShutArray
    \/ StepEndRandArray \/ Return
SpecRandArray == Init /\ [][NextRandArray]_vars

(* Checks of slices with Repeat and RepeatWithInverse, whose counts are      *)
(* integers, fractions, NaN, the infinities or not numbers                   *)

RepeatWithInversePrim == ImplPrim("RepeatWithInverse", 0, 1, Some(2))

\* the literals pushed as counts: 2 and -2, 1/2 and -1/2, NaN, the
\* infinities and a character
OddCountLiterals ==
    {NumValue(F64Int(2)), NumValue(F64Int(-2)), NumValue(F64Half(0)),
     NumValue(F64Half(-1)), NumValue(F64NaN), NumValue(F64Inf),
     NumValue(F64NegInf), CharValue}

\* Instr::Push of a count
StepPushOddCount ==
    /\ pc = "run"
    /\ \E v \in OddCountLiterals : Step(Push(v), MaxLen)
\* ImplPrimitive::RepeatWithInverse
StepRepeatWithInverse ==
    /\ pc = "run"
    /\ Step(RepeatWithInversePrim, MaxLen)

NextInverse ==
    \/ StepPushOddCount \/ StepPushFunc \/ StepRepeat \/ StepRepeatWithInverse
    \/ StepOpenArray \/ Return
SpecInverse == Init /\ [][NextInverse]_vars

(* Checks of slices that move a count about the stack before a Repeat: Dup,  *)
(* Flip, Over, Around and the moves to and from the temp stack Inline        *)

\* the literals moved about: the count 2 and a character
MovedLiterals == {NumValue(F64Int(2)), CharValue}
\* the body of the Repeat
MovedSig == Signature(1, 2)
StackPrims ==
    {Prim("Dup", Some(1), Some(2), None), Prim("Flip", Some(2), Some(2), None),
     Prim("Over", Some(2), Some(3), None), Prim("Around", Some(2), Some(3), None)}
TempMoves ==
    UNION {{PushTemp(c, "Inline"), PopTemp(c, "Inline"), CopyToTemp(c, "Inline")} :
            c \in TempCounts}

\* Instr::Push of a value to move
StepPushMoved ==
    /\ pc = "run"
    /\ \E v \in MovedLiterals : Step(Push(v), MaxLen + 1)
\* Instr::PushFunc of the body
StepPushBody ==
    /\ pc = "run"
    /\ Step(PushFunc(MovedSig), MaxLen + 1)
\* Primitive::Dup, Flip, Over, Around
StepStackPrim ==
    /\ pc = "run"
    /\ \E i \in StackPrims : Step(i, MaxLen + 1)
\* Instr::PushTemp, PopTemp, CopyToTemp
StepTempMove ==
    /\ pc = "run"
    /\ \E i \in TempMoves : Step(i, MaxLen + 1)
\* Primitive::Repeat after the moves
StepRepeatMoved ==
    /\ pc = "run"
    /\ Step(RepeatPrim, MaxLen + 1)

NextMoves ==
    \/ StepPushMoved \/ StepPushBody \/ StepStackPrim \/ StepTempMove
    \/ StepRepeatMoved
SpecMoves == Init /\ [][NextMoves]_vars

(* naive_under_sig applied to signatures with counts near the largest an    *)
(* i32 holds                                                                *)

\* small counts and a count a little below the largest an i32 holds
WideCounts == {0, 1, 2, I32Max - 7}
WideSigs == {Signature(a, o) : a \in WideCounts, o \in WideCounts}

\* the pending signatures are g and, on top, f, any two of WideSigs
InitUnderSig ==
    /\ instrs = <<>>
    /\ pc = "run"
    /\ stack = NewEnv.stack
    /\ height = NewEnv.height
    /\ temp_stacks = NewEnv.temp_stacks
    /\ temp_heights = NewEnv.temp_heights
    /\ \E f \in WideSigs, g \in WideSigs : function_stack = <<g, f>>
    /\ array_stack = NewEnv.array_stack
    /\ min_height = NewEnv.min_height
    /\ temp_min_heights = NewEnv.temp_min_heights
    /\ err = None
    /\ result = None
    /\ cache = <<>>
    /\ calls = <<>>

\* naive_under_sig(f, g) for the two pending signatures
CallNaiveUnderSig ==
    /\ pc = "run"
    /\ Len(function_stack) = 2
    /\ result' = Some(naive_under_sig(function_stack[2], function_stack[1]))
    /\ pc' = "done"
    /\ UNCHANGED <<instrs, env_vars, err, cache, calls>>

SpecUnderSig == InitUnderSig /\ [][CallNaiveUnderSig]_vars

(* Checks by instrs_clean_signature_asm of slices that push and call the    *)
(* functions of the assembly                                                *)

AsmFunctions == 1..5

\* Instr::PushFunc of a function of the assembly
StepPushAsmFunc ==
    /\ pc = "run"
    /\ \E k \in AsmFunctions : Step(PushFuncOf(k), MaxOperandLen)
\* instrs_clean_signature_asm whose lookup of the slice missed: the slice ends
\* here, and the bodies of the functions it pushes are checked in turn
ReturnCleanAsm ==
    /\ pc = "run"
    /\ hash(instrs) \notin DOMAIN cache
    /\ \E a \in {clean_of(with_cache(cache, hash(instrs), [env |-> Env, err |-> err]))} :
       \E b \in {bodies_clean(a.cache, pushed_functions(instrs))} :
       \E r \in {clean_asm_of(a, b)} :
          /\ result' = Some(r.result)
          /\ cache' = r.cache
          /\ calls' = Append(calls, Completed("instrs_clean_signature_asm", instrs,
                                              r.result, TRUE))
    /\ pc' = "done"
    /\ UNCHANGED <<instrs, env_vars, err>>

NextAsm ==
    \/ StepPushValue \/ StepPushAsmFunc \/ StepCall \/ StepPushTemp \/ StepPopTemp
    \/ ReturnCleanAsm
SpecAsm == Init /\ [][NextAsm]_vars

----------------------------------------------------------------------------
(* Checks on two threads: pc, instrs and cache hold one value per thread,   *)
(* and calls is the history of the calls and returns of both threads        *)

\* the threads that call instrs_all_signatures
Threads == {"t1", "t2"}

\* the slices they check: the empty slice and <<EndArray, EndArray>>, which
\* fails, share a hash
ThreadSlices == {<<>>, <<EndArray, EndArray>>, <<Push(CharValue)>>, <<BinaryPrim>>}

\* a thread-local CACHE shared by every thread
thread_cache_shared(c, t) == c[CHOOSE u \in Threads : TRUE]

\* CACHE.with on thread t: the thread_local gives the closure the instance
\* of the calling thread
thread_cache(c, t) == c[t]

\* thread t calls instrs_all_signatures on slice s
Called(t, s) == [thread |-> t, slice |-> s, kind |-> "call"]
\* thread t returns r from its call on slice s
ReturnedTo(t, s, r) == [thread |-> t, slice |-> s, kind |-> "return", result |-> r]

\* the calls made so far
Started == Cardinality({k \in 1..Len(calls) : calls[k].kind = "call"})

InitThreads ==
    /\ instrs = [t \in Threads |-> <<>>]
    /\ pc = [t \in Threads |-> "idle"]
    /\ stack = NewEnv.stack
    /\ height = NewEnv.height
    /\ temp_stacks = NewEnv.temp_stacks
    /\ temp_heights = NewEnv.temp_heights
    /\ function_stack = NewEnv.function_stack
    /\ array_stack = NewEnv.array_stack
    /\ min_height = NewEnv.min_height
    /\ temp_min_heights = NewEnv.temp_min_heights
    /\ err = None
    /\ result = None
    /\ cache = [t \in Threads |-> <<>>]
    /\ calls = <<>>

\* a thread calls instrs_all_signatures and finds the hash in its cache
ThreadHit ==
    /\ Started < MaxCalls
    /\ \E t \in Threads : \E s \in ThreadSlices :
          /\ pc[t] = "idle"
          /\ hash(s) \in DOMAIN thread_cache(cache, t)
          /\ calls' = calls \o <<Called(t, s),
                                 ReturnedTo(t, s, OkAll(thread_cache(cache, t)[hash(s)]))>>
    /\ UNCHANGED <<instrs, pc, env_vars, err, result, cache>>

\* a thread calls instrs_all_signatures and does not find the hash
ThreadMiss ==
    /\ Started < MaxCalls
    /\ \E t \in Threads : \E s \in ThreadSlices :
          /\ pc[t] = "idle"
          /\ hash(s) \notin DOMAIN thread_cache(cache, t)
          /\ pc' = [pc EXCEPT ![t] = "miss"]
          /\ instrs' = [instrs EXCEPT ![t] = s]
          /\ calls' = Append(calls, Called(t, s))
    /\ UNCHANGED <<env_vars, err, result, cache>>

\* the thread simulates the slice, stores the bundle and returns, or returns
\* the Err
ThreadSimulate ==
    /\ \E t \in Threads : \E r \in {from_instrs(instrs[t])} :
          /\ pc[t] = "miss"
          /\ IF r.err # None
             THEN /\ calls' = Append(calls, ReturnedTo(t, instrs[t], ErrSig(r.err[1])))
                  /\ UNCHANGED cache
             ELSE /\ cache' = [cache EXCEPT ![t] = insert(thread_cache(cache, t),
                                                         hash(instrs[t]),
                                                         AllSignatures(r.env))]
                  /\ calls' = Append(calls, ReturnedTo(t, instrs[t],
                                                      OkAll(AllSignatures(r.env))))
          /\ pc' = [pc EXCEPT ![t] = "idle"]
    /\ UNCHANGED <<instrs, env_vars, err, result>>

NextThreads == ThreadHit \/ ThreadMiss \/ ThreadSimulate
SpecThreads == InitThreads /\ [][NextThreads]_vars

----------------------------------------------------------------------------
(* Slices of literal pushes and fixed-arity steps *)

\* instruction i is a literal push or a primitive step handle(a, o)
IsFixedArity(i) ==
    \/ i.op = "Push"
    \/ /\ i.op = "Prim"
       /\ i.prim = "Plain"
       /\ i.args # None
       /\ i.outputs # None
       /\ unwrap_or(i.modifier_args, 0) = 0
IsStraight(slice) == \A k \in 1..Len(slice) : IsFixedArity(slice[k])

\* what a step pops and what it pushes
Pops(i) == IF i.op = "Push" THEN 0 ELSE i.args[1]
Pushes(i) == IF i.op = "Push" THEN 1 ELSE i.outputs[1]

\* the net height after a slice, and the largest deficit seen after the pops
\* of any of its steps, computed step by step by hand
RECURSIVE NetHeight(_)
NetHeight(slice) ==
    IF slice = <<>> THEN 0
    ELSE NetHeight(Front(slice)) - Pops(Last(slice)) + Pushes(Last(slice))
RECURSIVE Deficit(_)
Deficit(slice) ==
    IF slice = <<>> THEN 0
    ELSE Max(Deficit(Front(slice)),
             Max(0, Pops(Last(slice)) - NetHeight(Front(slice))))

\* C1: a successful check of a slice of literal pushes and fixed-arity steps
\* returns args = the largest deficit observed after any pop and
\* outputs = final net height + args.
C1_HandTrace ==
    (pc = "done" /\ IsStraight(instrs) /\ result[1].ok) =>
        result[1].sig = Signature(Deficit(instrs),
                                  NetHeight(instrs) + Deficit(instrs))

\* a check returned for a slice that dug two values below its start after a
\* push and still left values on the stack
C1_Witness ==
    /\ pc = "done"
    /\ IsStraight(instrs)
    /\ Len(instrs) >= 3
    /\ instrs[1].op = "Push"
    /\ result[1].ok
    /\ result[1].sig.args = 2
    /\ result[1].sig.outputs >= 1

\* the composition rule of the claim: a runs first, then b
ComposeRule(a, b) ==
    Signature(a.args + Max(0, b.args - a.outputs),
              b.outputs + Max(0, a.outputs - b.args))

\* C2: the signature of a concatenation s1 ++ s2 of such slices is
\* compose(sig(s1), sig(s2)), for every way of cutting the checked slice in two.
C2_Compose ==
    (pc = "done" /\ IsStraight(instrs)) =>
        \A k \in 0..Len(instrs) :
            LET s1 == SubSeq(instrs, 1, k)
                s2 == SubSeq(instrs, k + 1, Len(instrs))
            IN  result[1].sig = ComposeRule(instrs_signature(s1).sig,
                                            instrs_signature(s2).sig)

\* a checked slice of four steps whose second half needs more than the first
\* half leaves
C2_Witness ==
    /\ pc = "done"
    /\ IsStraight(instrs)
    /\ Len(instrs) = 4
    /\ instrs_signature(SubSeq(instrs, 1, 2)).sig.outputs
         < instrs_signature(SubSeq(instrs, 3, 4)).sig.args
    /\ instrs_signature(SubSeq(instrs, 1, 2)).sig.args > 0

\* the slice is k literal pushes followed by m binary (2-in, 1-out) primitives
IsPushesThenBinary(slice, k, m) ==
    /\ Len(slice) = k + m
    /\ \A j \in 1..k : slice[j].op = "Push"
    /\ \A j \in (k + 1)..(k + m) :
          /\ IsFixedArity(slice[j])
          /\ slice[j].op = "Prim"
          /\ slice[j].args = Some(2)
          /\ slice[j].outputs = Some(1)

\* C3: k literal pushes followed by m binary primitives check as (0, k) when
\* m = 0 and as (max(0, m+1-k), max(1, k-m)) when m >= 1.
C3_PushesThenBinary ==
    pc = "done" =>
        \A k \in 0..Len(instrs) :
            LET m == Len(instrs) - k
            IN  IsPushesThenBinary(instrs, k, m) =>
                    result[1] = OkSig(IF m = 0 THEN Signature(0, k)
                                      ELSE Signature(Max(0, m + 1 - k),
                                                     Max(1, k - m)))

\* push, push, op, op was checked and gave (1, 1)
C3_Witness ==
    /\ pc = "done"
    /\ IsPushesThenBinary(instrs, 2, 2)
    /\ result[1] = OkSig(Signature(1, 1))

\* C5: instrs_signature on a slice that is one primitive with declared args a,
\* outputs o and m function operands returns Ok (a + m, o), and no
\* environment was run for it.
C5_SinglePrim ==
    (pc = "done" /\ is_single_static_prim(instrs)) =>
        /\ result[1] = OkSig(Signature(
                instrs[1].args[1] + unwrap_or(instrs[1].modifier_args, 0),
                instrs[1].outputs[1]))
        /\ Env = NewEnv
        /\ err = None

\* a one-primitive slice with a function operand was checked with none pending
C5_Witness ==
    /\ pc = "done"
    /\ is_single_static_prim(instrs)
    /\ instrs[1].modifier_args = Some(1)
    /\ instrs[1].args = Some(1)
    /\ result[1] = OkSig(Signature(2, 1))
    /\ from_instrs(instrs).err # None

----------------------------------------------------------------------------
(* Array literals *)

\* the slice is BeginArray, n literal pushes, EndArray
IsArrayLiteral(slice, n) ==
    /\ Len(slice) = n + 2
    /\ slice[1] = BeginArray
    /\ \A j \in 2..(n + 1) : slice[j].op = "Push"
    /\ slice[n + 2] = EndArray

\* C4: BeginArray, n literal pushes, EndArray checks as (0, 1) and leaves no
\* array marker open; with one binary primitive appended it checks as (1, 1).
C4_ArrayLiteral ==
    pc = "done" =>
        \A n \in 0..Len(instrs) :
            /\ IsArrayLiteral(instrs, n) =>
                    result[1] = OkSig(Signature(0, 1)) /\ array_stack = <<>>
            /\ (Len(instrs) = n + 3
                    /\ IsArrayLiteral(SubSeq(instrs, 1, n + 2), n)
                    /\ instrs[n + 3] = BinaryPrim) =>
                    result[1] = OkSig(Signature(1, 1))

\* the array literal of three pushes followed by a binary primitive was checked
C4_Witness ==
    /\ pc = "done"
    /\ Len(instrs) = 6
    /\ IsArrayLiteral(SubSeq(instrs, 1, 5), 3)
    /\ instrs[6] = BinaryPrim
    /\ result[1] = OkSig(Signature(1, 1))
    /\ stack = <<Other>>

----------------------------------------------------------------------------
(* Steps of the loop, and the effect of handle(a, o) stated on the heights *)

\* the loop takes instruction i as its next one
Takes(i) == pc = "run" /\ err = None /\ instrs' = Append(instrs, i)

\* the step succeeds and leaves what handle(a, o) leaves of a main stack st of
\* height h and minimum height mh: a values gone, o opaque values on top
HandleEffect(h, mh, st, a, o) ==
    /\ err' = None
    /\ height' = h - a + o
    /\ min_height' = Max(mh, Max(0, a - h))
    /\ stack' = SubSeq(st, 1, Max(0, Len(st) - a)) \o [k \in 1..o |-> Other]

\* the step pops the top pending signatures, k of them
PopsFuncs(k) ==
    function_stack' = SubSeq(function_stack, 1, Len(function_stack) - k)

\* the pending signature j places below the top
Pending(j) == function_stack[Len(function_stack) - j]

\* C6: Fork pops two pending signatures f and g and applies
\* handle(max(f.args, g.args), f.outputs + g.outputs); f = (1,1) and g = (2,1)
\* on an empty stack check as (2, 2), whichever was pushed first.
C6_Fork ==
    /\ [][(Takes(ForkPrim) /\ Len(function_stack) >= 2) =>
            LET f == Pending(0)
                g == Pending(1)
            IN  /\ PopsFuncs(2)
                /\ HandleEffect(height, min_height, stack,
                                Max(f.args, g.args), f.outputs + g.outputs)]_vars
    /\ [](\A f, g \in {Signature(1, 1), Signature(2, 1)} :
            (pc = "done" /\ f # g /\ instrs = <<PushFunc(g), PushFunc(f), ForkPrim>>)
                => result[1] = OkSig(Signature(2, 2)))

\* Fork of f = (1,1) (on top) and g = (2,1) was checked on an empty stack
C6_Witness ==
    /\ pc = "done"
    /\ instrs = <<PushFunc(Signature(2, 1)), PushFunc(Signature(1, 1)), ForkPrim>>
    /\ result[1] = OkSig(Signature(2, 2))
    /\ function_stack = <<>>

\* C7: Bracket pops two pending signatures f and g and applies
\* handle(f.args + g.args, f.outputs + g.outputs); f = (1,1) and g = (2,1) on
\* an empty stack check as (3, 2).
C7_Bracket ==
    /\ [][(Takes(BracketPrim) /\ Len(function_stack) >= 2) =>
            LET f == Pending(0)
                g == Pending(1)
            IN  /\ PopsFuncs(2)
                /\ HandleEffect(height, min_height, stack,
                                f.args + g.args, f.outputs + g.outputs)]_vars
    /\ []((pc = "done"
            /\ instrs = <<PushFunc(Signature(2, 1)), PushFunc(Signature(1, 1)),
                          BracketPrim>>)
                => result[1] = OkSig(Signature(3, 2)))

\* Bracket of f = (1,1) (on top) and g = (2,1) was checked on an empty stack
C7_Witness ==
    /\ pc = "done"
    /\ instrs = <<PushFunc(Signature(2, 1)), PushFunc(Signature(1, 1)), BracketPrim>>
    /\ result[1] = OkSig(Signature(3, 2))
    /\ function_stack = <<>>

----------------------------------------------------------------------------
(* Repeat *)

\* the count Repeat will pop: the top of the value record, if there is one
KnownCount(n) == stack # <<>> /\ Last(stack) = Num(F64Int(n))
UnknownCount == stack = <<>> \/ Last(stack).t # "Num"
PositiveInfiniteCount == stack # <<>> /\ Last(stack) = Num(F64Inf)
InfiniteCount == stack # <<>> /\ Last(stack) \in {Num(F64Inf), Num(F64NegInf)}

\* the height and minimum height once the count is popped, and what is left
\* of the value record
HeightLessCount == height - 1
MinHeightLessCount == Max(min_height, Max(0, 1 - height))
StackLessCount == SubSeq(stack, 1, Len(stack) - 1)

\* the step pops the pending signature and the count, and nothing else
OnlyPopsCount ==
    /\ err' = None
    /\ PopsFuncs(1)
    /\ height' = HeightLessCount
    /\ min_height' = MinHeightLessCount
    /\ stack' = StackLessCount

\* the step pops the pending signature and the count and applies handle(a, o)
RepeatHandles(a, o) ==
    /\ PopsFuncs(1)
    /\ HandleEffect(HeightLessCount, MinHeightLessCount, StackLessCount, a, o)

\* the signature the known-count rule hands to handle for f and n iterations
KnownCountRule(f, n) ==
    IF f.args = f.outputs THEN f
    ELSE IF f.args < f.outputs
    THEN Signature(f.args, n * (f.outputs - f.args) + f.args)
    ELSE Signature((n - 1) * (f.args - f.outputs) + f.args, f.outputs)

\* push 3, f = (1,2), Repeat on an empty stack checks as (1, 4)
RepeatExample ==
    (pc = "done"
     /\ instrs = <<Push(NumValue(F64Int(3))), PushFunc(Signature(1, 2)), RepeatPrim>>)
        => result[1] = OkSig(Signature(1, 4))

\* C8 as claimed: for every known count n >= 0, 0 included, Repeat pops the
\* count and applies the known-count rule.
C8_Original ==
    /\ [][\A n \in 0..MaxCount :
            (Takes(RepeatPrim) /\ function_stack # <<>> /\ KnownCount(n)) =>
                LET r == KnownCountRule(Pending(0), n)
                IN  RepeatHandles(r.args, r.outputs)]_vars
    /\ []RepeatExample

\* C8, amended: for every known count n >= 1 Repeat pops the count and applies
\* the known-count rule; for the count 0 it pops the count and applies nothing.
C8_Repeat ==
    /\ [][\A n \in 0..MaxCount :
            (Takes(RepeatPrim) /\ function_stack # <<>> /\ KnownCount(n)) =>
                IF n = 0 THEN OnlyPopsCount
                ELSE LET r == KnownCountRule(Pending(0), n)
                     IN  RepeatHandles(r.args, r.outputs)]_vars
    /\ []RepeatExample

\* Repeat of f = (1,2) with the known count 3 was checked on an empty stack
C8_Witness ==
    /\ pc = "done"
    /\ instrs = <<Push(NumValue(F64Int(3))), PushFunc(Signature(1, 2)), RepeatPrim>>
    /\ result[1] = OkSig(Signature(1, 4))

\* the step fails with an error of kind k
FailsWith(k) == err' # None /\ err'[1].kind = k

\* C9 as claimed: Repeat with an unknown or infinite count and a body with
\* f.args > f.outputs fails with LoopOverreach.
C9_Original ==
    [][(/\ Takes(RepeatPrim)
        /\ function_stack # <<>>
        /\ (UnknownCount \/ InfiniteCount)
        /\ Pending(0).args > Pending(0).outputs)
            => FailsWith(LoopOverreach)]_vars

\* C9, amended: Repeat with an unknown count or the count +infinity and a body
\* with f.args > f.outputs fails with LoopOverreach, array literal open or not.
C9_LoopOverreach ==
    [][(/\ Takes(RepeatPrim)
        /\ function_stack # <<>>
        /\ (UnknownCount \/ PositiveInfiniteCount)
        /\ Pending(0).args > Pending(0).outputs)
            => FailsWith(LoopOverreach)]_vars

\* Repeat of f = (2,1) with an unknown count failed with LoopOverreach inside
\* an open array literal
C9_Witness ==
    /\ instrs = <<BeginArray, Push(CharValue), PushFunc(Signature(2, 1)), RepeatPrim>>
    /\ err # None
    /\ err[1].kind = LoopOverreach
    /\ array_stack # <<>>

\* C10 as claimed: Repeat with an unknown or infinite count and a body with
\* f.args < f.outputs fails with LoopVariable{f, inf} exactly when no array
\* marker is open, inf telling an infinite count from an unknown one; with a
\* marker open it applies handle(f).
C10_Original ==
    [][(/\ Takes(RepeatPrim)
        /\ function_stack # <<>>
        /\ (UnknownCount \/ InfiniteCount)
        /\ Pending(0).args < Pending(0).outputs)
            => IF array_stack = <<>>
               THEN FailsWith(LoopVariable(Pending(0), InfiniteCount))
               ELSE RepeatHandles(Pending(0).args, Pending(0).outputs)]_vars

\* C10, amended: the same for an unknown count or the count +infinity.
C10_LoopVariable ==
    [][(/\ Takes(RepeatPrim)
        /\ function_stack # <<>>
        /\ (UnknownCount \/ PositiveInfiniteCount)
        /\ Pending(0).args < Pending(0).outputs)
            => IF array_stack = <<>>
               THEN FailsWith(LoopVariable(Pending(0), PositiveInfiniteCount))
               ELSE RepeatHandles(Pending(0).args, Pending(0).outputs)]_vars

\* Repeat of f = (1,2) with the count +infinity succeeded inside an open array
\* literal and applied handle(1, 2) once
C10_Witness ==
    /\ instrs = <<BeginArray, Push(NumValue(F64Inf)), PushFunc(Signature(1, 2)),
                  RepeatPrim>>
    /\ err = None
    /\ height = 1
    /\ min_height = 1
    /\ array_stack = <<-1>>

----------------------------------------------------------------------------
(* Do *)

\* the step fails with LoopVariable{comp, false} and the message of Do
DoFails(comp) ==
    /\ FailsWith(LoopVariable(comp, FALSE))
    /\ err'[1].message = <<"do with a function with signature", comp>>

\* what Do does with body and cond when cond_sub is the condition's
\* signature with its copies
DoRule(body, cond, cond_sub) ==
    LET comp == ComposeRule(body, cond_sub)
    IN  IF comp.args < comp.outputs /\ array_stack = <<>>
        THEN DoFails(comp)
        ELSE /\ PopsFuncs(2)
             /\ HandleEffect(height, min_height, stack, comp.args,
                    comp.outputs + Max(0, cond_sub.outputs - cond.args))

\* C11 as claimed: Do pops body then cond and, with copy_count =
\* max(0, cond.args - (cond.outputs - 1)) and cond_sub = (cond.args,
\* cond.outputs + copy_count - 1), fails with LoopVariable{comp, false} iff
\* comp.args < comp.outputs outside array literals and otherwise applies
\* handle(comp.args, comp.outputs + max(0, cond_sub.outputs - cond.args)), for
\* every cond signature, cond.outputs = 0 included.
C11_Original ==
    [][(Takes(DoPrim) /\ Len(function_stack) >= 2) =>
            LET body == Pending(0)
                cond == Pending(1)
                copy_count == Max(0, cond.args - (cond.outputs - 1))
                cond_sub == Signature(cond.args, cond.outputs + copy_count - 1)
            IN  DoRule(body, cond, cond_sub)]_vars

\* C11, amended: the two subtractions of 1 saturate at 0: copy_count =
\* max(0, cond.args - max(0, cond.outputs - 1)) and cond_sub = (cond.args,
\* max(0, cond.outputs + copy_count - 1)); with these Do fails or applies
\* handle as claimed, for every cond signature.
C11_Do ==
    [][(Takes(DoPrim) /\ Len(function_stack) >= 2) =>
            LET body == Pending(0)
                cond == Pending(1)
                copy_count == Max(0, cond.args - Max(0, cond.outputs - 1))
                cond_sub == Signature(cond.args, Max(0, cond.outputs + copy_count - 1))
            IN  DoRule(body, cond, cond_sub)]_vars

\* a Do whose condition (1, 0) has no outputs was checked with body (1, 1)
C11_Witness ==
    /\ instrs = <<Push(CharValue), PushFunc(Signature(1, 0)),
                  PushFunc(Signature(1, 1)), DoPrim>>
    /\ err = None
    /\ height = 0

----------------------------------------------------------------------------
(* Under *)

\* the least element of a finite non-empty set of integers
Least(S) == CHOOSE x \in S : \A y \in S : x <= y

\* the signature of the walk of a counter from 0 through -f.args, +f.outputs,
\* -g.args, +g.outputs, -finv.args, +finv.outputs: (|min|, final - min), min
\* the least of 0 and the counter after each subtraction
UnderWalk(f, g) ==
    LET finv == IF f.outputs > 1 THEN inverse(f)
                ELSE Signature(Min(f.args, 1), f.outputs)
        after_f == 0 - f.args
        after_g == after_f + f.outputs - g.args
        after_finv == after_g + g.outputs - finv.args
        final == after_finv + finv.outputs
        least == Least({0, after_f, after_g, after_finv})
    IN  Signature(IF least < 0 THEN -least ELSE least, final - least)

\* C12: Under pops f (the top pending signature) then g and applies
\* handle(naive_under_sig(f, g)), the signature (|min|, final - min) of the
\* walk through f, g and finv, where finv = inverse(f) if f.outputs > 1 and
\* (min(f.args, 1), f.outputs) otherwise.
C12_Under ==
    [][(Takes(UnderPrim) /\ Len(function_stack) >= 2) =>
            LET s == UnderWalk(Pending(0), Pending(1))
            IN  /\ PopsFuncs(2)
                /\ HandleEffect(height, min_height, stack, s.args, s.outputs)]_vars

\* Under of f = (1, 2) (on top) and g = (2, 1) was checked: the walk goes
\* -1, +1, -1, 0, -2, -1, so handle(2, 1) on a stack of one value
C12_Witness ==
    /\ instrs = <<Push(CharValue), PushFunc(Signature(2, 1)),
                  PushFunc(Signature(1, 2)), UnderPrim>>
    /\ err = None
    /\ height = 0
    /\ min_height = 1

----------------------------------------------------------------------------
(* Missing function operands *)

\* the number of function operands instruction i takes
NeedsFuncs(i) ==
    CASE i.op \in {"Call", "CustomInverse"} -> 1
      [] i.op = "Switch" -> i.count
      [] i.op \in {"Prim", "ImplPrim"} -> unwrap_or(i.modifier_args, 0)
      [] OTHER -> 0

\* instruction i finds fewer pending signatures than it takes, or is an
\* EndArray without an open marker, in environment e
Starved(e, i) ==
    \/ NeedsFuncs(i) > Len(e.function_stack)
    \/ i.op = "EndArray" /\ e.array_stack = <<>>

\* the last instruction of the slice is starved after the instructions
\* before it were simulated
StarvedSlice(slice) ==
    /\ slice # <<>>
    /\ from_instrs(Front(slice)).err = None
    /\ Starved(from_instrs(Front(slice)).env, Last(slice))

\* a starved step of the simulator fails with an error of kind Incorrect
StarvedStepFails ==
    [][\A i \in OperandInstrs \cup {EndArray} :
            (Takes(i) /\ pc' = "run" /\ Starved(Env, i)) => FailsWith(Incorrect)]_vars

\* the check returned an error of kind Incorrect
ReturnedIncorrect == ~result[1].ok /\ result[1].err.kind = Incorrect

\* C13 as claimed: an instruction that takes a function operand when no
\* pending signature is left, and an EndArray without an open marker, make
\* the check return an error of kind Incorrect: neither a Signature nor an
\* AllSignatures is returned for the slice.
C13_Original ==
    /\ StarvedStepFails
    /\ [](pc = "done" /\ StarvedSlice(instrs) => ReturnedIncorrect)

\* C13, amended: such an instruction makes VirtualEnv::instr fail with an error
\* of kind Incorrect, which instrs_all_signatures returns for every slice, and
\* instrs_signature for every slice but the slice of one primitive with
\* declared args a and outputs o, for which it returns (a + m, o) unsimulated.
C13_MissingOperand ==
    /\ StarvedStepFails
    /\ [](pc = "done" /\ StarvedSlice(instrs) =>
            IF Last(calls).fn = "instrs_signature" /\ is_single_static_prim(instrs)
            THEN result[1] = OkSig(Signature(
                    instrs[1].args[1] + instrs[1].modifier_args[1],
                    instrs[1].outputs[1]))
            ELSE ReturnedIncorrect)

\* instrs_all_signatures was given a Fork with one pending signature only
C13_Witness ==
    /\ pc = "done"
    /\ instrs = <<PushFunc(Signature(1, 1)), ForkPrim>>
    /\ Last(calls).fn = "instrs_all_signatures"
    /\ ReturnedIncorrect
    /\ cache = <<>>

----------------------------------------------------------------------------
(* The first failing instruction ends the check *)

\* instructions that may follow a failed one: a push, a pending function, a
\* marker, and instructions that fail with errors of their own
FollowingInstrs ==
    {Push(CharValue), PushFunc(Signature(1, 1)), BeginArray, EndArray, ForkPrim}

\* the slices of at most two following instructions
Extensions ==
    {<<>>} \cup {<<i>> : i \in FollowingInstrs}
           \cup {<<i, j>> : i \in FollowingInstrs, j \in FollowingInstrs}

----------------------------------------------------------------------------
(* The cache of instrs_all_signatures *)

\* the completed checks i and j, i the earlier, are of the same function on
\* the same slice
SameCheck(i, j) ==
    /\ i < j
    /\ calls[i].fn = calls[j].fn
    /\ calls[i].slice = calls[j].slice

\* C15: checking the same slice twice with instrs_all_signatures, or twice
\* with instrs_signature, returns the same signatures or the same error both
\* times, whatever checks of other slices are made in between.
C15_Idempotent ==
    \A i, j \in DOMAIN calls : SameCheck(i, j) => calls[i].result = calls[j].result

\* what instrs_all_signatures returns for a slice from an uncached simulation
Uncached(slice) ==
    LET r == from_instrs(slice)
    IN  IF r.err # None THEN ErrSig(r.err[1]) ELSE OkAll(AllSignatures(r.env))

\* C16: whatever earlier checks left in the cache, instrs_all_signatures
\* returns for a slice what an uncached simulation of the slice returns: the
\* same stack and temp signatures, functions_left and array_stack, or the same
\* error; a hit being decided by the equality of the hashes alone.
C16_Transparent ==
    \A k \in DOMAIN calls :
        calls[k].fn = "instrs_all_signatures" => calls[k].result = Uncached(calls[k].slice)

\* the step completes a call of fn
Completes(fn) == Len(calls') = Len(calls) + 1 /\ calls'[Len(calls')].fn = fn

\* C17: a check that fails stores nothing: when instrs_all_signatures returns
\* an error the cache is as it was before the call, and a later check of the
\* same slice runs the simulator again.
C17_FailureNotCached ==
    /\ [][(Completes("instrs_all_signatures") /\ ~result'[1].ok) => cache' = cache]_vars
    /\ [](\A i, j \in DOMAIN calls :
            (SameCheck(i, j) /\ calls[i].fn = "instrs_all_signatures"
                /\ ~calls[i].result.ok) => calls[j].ran)

\* C18: the cache only grows: an entry stored for a hash is neither removed
\* nor replaced by a later check, and every later call of
\* instrs_all_signatures on a slice with that hash returns the stored bundle.
C18_AppendOnly ==
    /\ [][\A h \in DOMAIN cache : h \in DOMAIN cache' /\ cache'[h] = cache[h]]_vars
    /\ [][(Completes("instrs_all_signatures") /\ hash(instrs') \in DOMAIN cache) =>
            /\ result' = Some(OkAll(cache[hash(instrs')]))
            /\ ~calls'[Len(calls')].ran]_vars

\* after a check of another slice stored a second entry, a third check, of a
\* third slice, found the entry of the first one and returned its bundle
C18_Witness ==
    /\ Len(calls) = 3
    /\ calls[3].slice # calls[1].slice
    /\ calls[1].ran /\ calls[1].result.ok
    /\ calls[2].ran /\ calls[2].result.ok
    /\ hash(calls[2].slice) # hash(calls[1].slice)
    /\ calls[3].fn = "instrs_all_signatures" /\ ~calls[3].ran
    /\ hash(calls[3].slice) = hash(calls[1].slice)
    /\ result = Some(calls[1].result)
    /\ calls[1].fn = "instrs_all_signatures" /\ calls[2].fn = "instrs_all_signatures"

----------------------------------------------------------------------------
(* instrs_clean_signature *)

\* the signature of temp stack t at the end of the slice
TempSig(t) ==
    Signature(temp_min_heights[t], Max(0, temp_heights[t] + temp_min_heights[t]))

\* the main signature at the end of the slice
MainSig == Signature(min_height, Max(0, height + min_height))

\* the check succeeded and left no pending function, no open array marker
\* and every temp stack with the signature (0, 0)
EndsClean ==
    /\ err = None
    /\ function_stack = <<>>
    /\ array_stack = <<>>
    /\ \A t \in TempStack : TempSig(t) = Signature(0, 0)

\* instrs_clean_signature has returned
CleanDone == pc = "done" /\ Last(calls).fn = "instrs_clean_signature"

\* C19: instrs_clean_signature returns Some(main signature) iff the check
\* succeeds and ends with no pending function, no open array marker and every
\* temp signature (0, 0), and None otherwise; PushTemp{c,t} then PopTemp{c,t}
\* is clean, with Some((c, c)), and PopTemp{c,t} then PushTemp{c,t}, whose temp
\* signature is (c, c), is not.
C19_Clean ==
    /\ CleanDone => result[1] = (IF EndsClean THEN Some(MainSig) ELSE None)
    /\ \A c \in TempCounts, t \in TempStack :
          /\ (CleanDone /\ instrs = <<PushTemp(c, t), PopTemp(c, t)>>)
                => result[1] = Some(Signature(c, c))
          /\ (CleanDone /\ instrs = <<PopTemp(c, t), PushTemp(c, t)>>)
                => (result[1] = None /\ TempSig(t) = Signature(c, c))
          /\ instrs_clean_signature(<<>>, <<PushTemp(c, t), PopTemp(c, t)>>).result
                = Some(Signature(c, c))
          /\ instrs_clean_signature(<<>>, <<PopTemp(c, t), PushTemp(c, t)>>).result
                = None

\* PopTemp{2, Under} then PushTemp{2, Under} was checked: it succeeds with
\* (0, 0) on the main stack and nothing pending, and is not clean
C19_Witness ==
    /\ CleanDone
    /\ instrs = <<PopTemp(2, "Under"), PushTemp(2, "Under")>>
    /\ err = None /\ function_stack = <<>> /\ array_stack = <<>>
    /\ MainSig = Signature(0, 0)
    /\ result[1] = None

----------------------------------------------------------------------------
(* The immediate global call *)

\* An immediate global call pops one pending signature and applies handle of
\* the signature it popped.
C20_Original ==
    [][\A s \in GlobalSigs :
          (Takes(CallGlobal(TRUE, s)) /\ function_stack # <<>>) =>
              /\ PopsFuncs(1)
              /\ HandleEffect(height, min_height, stack, Pending(0).args,
                              Pending(0).outputs)]_vars

\* C20: an immediate global call (CallGlobal with call = true) applies
\* handle(sig.args, sig.outputs) of the signature the instruction carries and
\* leaves the pending-function stack as it was.
C20_CallGlobal ==
    [][\A s \in GlobalSigs :
          Takes(CallGlobal(TRUE, s)) =>
              /\ function_stack' = function_stack
              /\ HandleEffect(height, min_height, stack, s.args, s.outputs)]_vars

\* the global (0, 1) was called while (2, 1) was pending: one value more on
\* the main stack, and (2, 1) still pending
C20_Witness ==
    /\ instrs = <<Push(CharValue), PushFunc(Signature(2, 1)),
                  CallGlobal(TRUE, Signature(0, 1))>>
    /\ err = None
    /\ height = 2
    /\ min_height = 0
    /\ function_stack = <<Signature(2, 1)>>

----------------------------------------------------------------------------
(* Try and Case *)

TryPrim == Prim("Try", None, None, Some(2))
CasePrim == Prim("Case", None, None, Some(1))

\* Try and Case each pop two pending signatures, f (top) and a handler, and
\* apply handle(f).
C21_Original ==
    [][\A i \in {TryPrim, CasePrim} :
          (Takes(i) /\ Len(function_stack) >= 2) =>
              /\ PopsFuncs(2)
              /\ HandleEffect(height, min_height, stack, Pending(0).args,
                              Pending(0).outputs)]_vars

\* C21: Try pops two pending signatures, f (top) and a handler, and applies
\* handle(f), whatever the handler's signature; Case pops one pending
\* signature f and applies handle(f), and the signature below f stays pending.
C21_TryCase ==
    /\ [][(Takes(TryPrim) /\ Len(function_stack) >= 2) =>
              /\ PopsFuncs(2)
              /\ HandleEffect(height, min_height, stack, Pending(0).args,
                              Pending(0).outputs)]_vars
    /\ [][(Takes(CasePrim) /\ Len(function_stack) >= 1) =>
              /\ PopsFuncs(1)
              /\ HandleEffect(height, min_height, stack, Pending(0).args,
                              Pending(0).outputs)]_vars

\* Try of f = (2, 1) with the handler (0, 2) was checked: handle(2, 1), and
\* no signature left pending
C21_Witness ==
    /\ instrs = <<PushFunc(Signature(0, 2)), PushFunc(Signature(2, 1)), TryPrim>>
    /\ err = None
    /\ height = -1
    /\ min_height = 2
    /\ function_stack = <<>>

----------------------------------------------------------------------------
(* Repeat with a negative count *)

\* the count Repeat will pop is the negative infinity
NegativeInfiniteCount == stack # <<>> /\ Last(stack) = Num(F64NegInf)

\* C25: Repeat with a known negative integer count n applies the known-count
\* rule to inverse(f) with |n| iterations; with the negative infinity it
\* applies the decision tree of the infinite count to inverse(f): it fails
\* with LoopOverreach if inverse(f) takes more than it leaves, with
\* LoopVariable{inverse(f), true} if it leaves more than it takes and no array
\* marker is open, and applies handle(inverse(f)) otherwise.
C25_NegativeCount ==
    /\ [][\A n \in 1..MaxCount :
            (Takes(RepeatPrim) /\ function_stack # <<>> /\ KnownCount(-n)) =>
                LET r == KnownCountRule(inverse(Pending(0)), n)
                IN  RepeatHandles(r.args, r.outputs)]_vars
    /\ [][(Takes(RepeatPrim) /\ function_stack # <<>> /\ NegativeInfiniteCount) =>
                LET g == inverse(Pending(0))
                IN  IF g.args > g.outputs THEN FailsWith(LoopOverreach)
                    ELSE IF g.args < g.outputs /\ array_stack = <<>>
                    THEN FailsWith(LoopVariable(g, TRUE))
                    ELSE RepeatHandles(g.args, g.outputs)]_vars

\* Repeat of f = (1, 2) with the count -2 was checked: inverse(f) = (2, 1)
\* twice is handle(3, 1)
C25_Witness ==
    /\ instrs = <<Push(NumValue(F64Int(-2))), PushFunc(Signature(1, 2)), RepeatPrim>>
    /\ err = None
    /\ height = -2
    /\ min_height = 3

----------------------------------------------------------------------------
(* Fill *)

\* what handle(a, o) leaves of a main stack of height h, minimum height mh
\* and value record st
AfterHandle(h, mh, st, a, o) ==
    [h |-> h - a + o,
     mh |-> Max(mh, Max(0, a - h)),
     st |-> SubSeq(st, 1, Max(0, Len(st) - a)) \o [k \in 1..o |-> Other]]

\* the main stack once Fill is done with its fill function: handle(fill) and
\* the loss of its outputs if it has outputs, nothing otherwise
AfterFillFunction(fill) ==
    IF fill.outputs > 0
    THEN LET x == AfterHandle(height, min_height, stack, fill.args, fill.outputs)
         IN  AfterHandle(x.h, x.mh, x.st, fill.outputs, 0)
    ELSE [h |-> height, mh |-> min_height, st |-> stack]

\* C26: Fill (and UnFill) pops the fill function's signature first (the top
\* pending signature) and f's second; if fill.outputs > 0 the main stack
\* undergoes handle(fill) and then loses those fill.outputs values, if
\* fill.outputs = 0 the fill function's args are not consumed; then handle(f)
\* is applied.
C26_Fill ==
    [][\A i \in {Prim("Fill", None, None, Some(2)), ImplPrim("UnFill", 0, 0, Some(2))} :
          (Takes(i) /\ Len(function_stack) >= 2) =>
              LET x == AfterFillFunction(Pending(0))
              IN  /\ PopsFuncs(2)
                  /\ HandleEffect(x.h, x.mh, x.st, Pending(1).args,
                                  Pending(1).outputs)]_vars

\* Fill of f = (1, 1) with the fill function (1, 0) was checked on an empty
\* stack: the fill function's argument is not consumed, so handle(1, 1) alone
C26_Witness ==
    /\ instrs = <<PushFunc(Signature(1, 1)), PushFunc(Signature(1, 0)),
                  Prim("Fill", None, None, Some(2))>>
    /\ err = None
    /\ height = 0
    /\ min_height = 1
    /\ function_stack = <<>>

----------------------------------------------------------------------------
(* With and Off *)

\* f with its args padded to 2 and as many outputs added
PaddedToBinary(f) ==
    IF f.args < 2 THEN Signature(2, f.outputs + (2 - f.args)) ELSE f

\* C27: With and Off pop one pending signature f and, when f.args < 2, raise
\* f.outputs by 2 - f.args and set f.args to 2 before applying handle(f); so
\* the instruction consumes at least 2 values and its net height change is
\* f.outputs - f.args of the original f.
C27_With ==
    [][\A i \in {Prim("With", None, None, Some(1)), Prim("Off", None, None, Some(1))} :
          (Takes(i) /\ function_stack # <<>>) =>
              LET f == Pending(0)
                  g == PaddedToBinary(f)
              IN  /\ PopsFuncs(1)
                  /\ HandleEffect(height, min_height, stack, g.args, g.outputs)
                  /\ g.args >= 2
                  /\ min_height' >= 2 - height
                  /\ height' - height = f.outputs - f.args]_vars

\* With of f = (1, 1) was checked on an empty stack: handle(2, 2)
C27_Witness ==
    /\ instrs = <<PushFunc(Signature(1, 1)), Prim("With", None, None, Some(1))>>
    /\ err = None
    /\ height = 0
    /\ min_height = 2
    /\ function_stack = <<>>

----------------------------------------------------------------------------
(* Reduce and Scan *)

\* C28: Reduce, Scan, ReduceContent and ReduceDepth pop one pending signature
\* f and apply handle(max(0, f.args - f.outputs), f.outputs); the count
\* consumed is 0 when f.outputs > f.args.
C28_Reduce ==
    [][\A i \in {Prim("Reduce", None, None, Some(1)),
                 Prim("Scan", None, None, Some(1)),
                 ImplPrim("ReduceContent", 1, 1, Some(1)),
                 ImplPrim("ReduceDepth", 1, 1, Some(1))} :
          (Takes(i) /\ function_stack # <<>>) =>
              LET f == Pending(0)
              IN  /\ PopsFuncs(1)
                  /\ HandleEffect(height, min_height, stack,
                                  Max(0, f.args - f.outputs), f.outputs)
                  /\ (f.outputs > f.args => min_height' = min_height)]_vars

\* Reduce of f = (1, 2) was checked on an empty stack: handle(0, 2)
C28_Witness ==
    /\ instrs = <<PushFunc(Signature(1, 2)), Prim("Reduce", None, None, Some(1))>>
    /\ err = None
    /\ height = 2
    /\ min_height = 0
    /\ function_stack = <<>>

----------------------------------------------------------------------------
(* pop on an empty value record *)

\* pop applied to the environment of the state lowers the height by one,
\* raises min_height to max(min_height, max(-height, 0)) of the new height
\* and yields an opaque value
PopOfEmptyRecord ==
    LET p == pop(Env)
    IN  /\ p.val = Other
        /\ p.env.stack = <<>>
        /\ p.env.height = height - 1
        /\ p.env.min_height = Max(min_height, Max(-(height - 1), 0))

\* the step pops the count and fails with an error of kind k
PopsCountAndFailsWith(k) ==
    /\ FailsWith(k)
    /\ height' = HeightLessCount
    /\ min_height' = MinHeightLessCount

----------------------------------------------------------------------------
(* Matched BeginArray ... EndArray pairs *)

\* every entry of lows that is above x lowered to x
LoweredTo(lows, x) == [n \in DOMAIN lows |-> Min(lows[n], x)]

\* the height after the first m instructions of a slice of pushes, primitives
\* of declared args and outputs and array literals, with, for every literal
\* still open (the innermost last), the least of the height at its BeginArray
\* and the heights reached since: a primitive reaches the height below its
\* arguments, an EndArray the least height of the literal it closes
RECURSIVE HeightWalk(_)
HeightWalk(m) ==
    IF m = 0 THEN [h |-> 0, lows |-> <<>>]
    ELSE LET w == HeightWalk(m - 1)
             i == instrs[m]
         IN  IF i.op = "Push" THEN [w EXCEPT !.h = @ + 1]
             ELSE IF i.op = "BeginArray" THEN [w EXCEPT !.lows = Append(@, w.h)]
             ELSE IF i.op = "Prim"
             THEN [h |-> w.h - i.args[1] + i.outputs[1],
                   lows |-> LoweredTo(w.lows, w.h - i.args[1])]
             ELSE IF w.lows = <<>> THEN w
             ELSE [h |-> Last(w.lows) + 1,
                   lows |-> LoweredTo(Front(w.lows), Last(w.lows))]

\* the last instruction of the slice is an EndArray that closed a literal
ClosesLiteral == instrs # <<>> /\ Last(instrs) = EndArray /\ err = None

\* C23: for every matched BeginArray ... EndArray pair, nested pairs
\* included, the height right after EndArray is min(height at BeginArray,
\* lowest height reached while the literal was open) + 1, and the depth of
\* the marker stack is back to its value before BeginArray.
C23_MatchedPair ==
    ClosesLiteral =>
        /\ height = Last(HeightWalk(Len(instrs) - 1).lows) + 1
        /\ Len(array_stack) = Len(HeightWalk(Len(instrs) - 1).lows) - 1

\* a literal nested in a literal was closed after two binary primitives took
\* values from below the outer BeginArray; the outer literal is still open
C23_Witness ==
    /\ instrs = <<Push(CharValue), BeginArray, BeginArray, BinaryPrim, BinaryPrim,
                  EndArray>>
    /\ err = None
    /\ height = -1
    /\ Len(array_stack) = 1

----------------------------------------------------------------------------
(* Moves between the main stack and the temp stacks *)

\* the step succeeds and leaves the heights handle(a, o) leaves of a main
\* stack of height h and minimum height mh
HeightEffect(h, mh, a, o) ==
    /\ err' = None
    /\ height' = h - a + o
    /\ min_height' = Max(mh, Max(0, a - h))

\* the step leaves the height and the minimum height of every temp stack but
\* t as they were
OtherTempsUnchanged(t) ==
    \A u \in TempStack \ {t} :
        /\ temp_heights'[u] = temp_heights[u]
        /\ temp_min_heights'[u] = temp_min_heights[u]

\* the step adds c values to temp stack t
AddsToTemp(t, c) ==
    /\ temp_heights'[t] = temp_heights[t] + c
    /\ temp_min_heights'[t] = temp_min_heights[t]

\* C24: PushTemp{c,t} acts as handle(c, 0) on the main stack and adds c to
\* the height of t; PopTemp{c,t} acts as handle(c, 0) on t and adds c to the
\* main height; CopyToTemp{c,t} acts as handle(c, c) on the heights of the
\* main stack and adds c to t; a move naming t never changes the height or
\* the min-height of another temp stack.
C24_TempMoves ==
    [][\A c \in TempCounts, t \in TempStack :
          /\ Takes(PushTemp(c, t)) =>
                /\ HandleEffect(height, min_height, stack, c, 0)
                /\ AddsToTemp(t, c)
                /\ OtherTempsUnchanged(t)
          /\ Takes(PopTemp(c, t)) =>
                /\ err' = None
                /\ temp_heights'[t] = temp_heights[t] - c
                /\ temp_min_heights'[t] =
                        Max(temp_min_heights[t], Max(0, c - temp_heights[t]))
                /\ height' = height + c
                /\ min_height' = min_height
                /\ OtherTempsUnchanged(t)
          /\ Takes(CopyToTemp(c, t)) =>
                /\ HeightEffect(height, min_height, c, c)
                /\ AddsToTemp(t, c)
                /\ OtherTempsUnchanged(t)]_vars

\* two values were popped from the empty temp stack Inline after one value
\* was copied to the temp stack Under: Inline has the deficit 2, Under keeps
\* its height 1 and its min-height 0
C24_Witness ==
    /\ instrs = <<Push(CharValue), CopyToTemp(1, "Under"), PopTemp(2, "Inline")>>
    /\ err = None
    /\ height = 3
    /\ temp_heights["Inline"] = -2
    /\ temp_min_heights["Inline"] = 2
    /\ temp_heights["Under"] = 1
    /\ temp_min_heights["Under"] = 0

----------------------------------------------------------------------------
(* The minimum heights *)

\* C29: in every state of the simulator min_height >= max(0, -height) and,
\* for every temp stack t, temp_min_heights[t] >= max(0, -temp_heights[t]);
\* so height + min_height >= 0 and the outputs of the signatures are
\* height + min_height, unclamped.
C29_MinHeightBounds ==
    /\ min_height >= Max(0, -height)
    /\ height + min_height >= 0
    /\ sig(Env) = Signature(min_height, height + min_height)
    /\ \A t \in TempStack :
          /\ temp_min_heights[t] >= Max(0, -temp_heights[t])
          /\ temp_heights[t] + temp_min_heights[t] >= 0
          /\ temp_signatures(Env)[t] =
                Signature(temp_min_heights[t], temp_heights[t] + temp_min_heights[t])

\* values were taken from below the slice on the main stack and on a temp
\* stack: both heights are negative and both min-heights are the deficits
C29_Witness ==
    /\ instrs = <<PushTemp(2, "Inline"), PopTemp(2, "Under"), PushTemp(2, "Under")>>
    /\ err = None
    /\ height = -2
    /\ min_height = 2
    /\ temp_heights["Under"] = 0
    /\ temp_min_heights["Under"] = 2

\* the slice went through the simulator: no check has returned yet, or the
\* one that returned ran the simulation
ThroughSimulator == calls = <<>> \/ Last(calls).ran

\* the check of the first k instructions of the slice succeeds with no more
\* args than the check of the slice
PrefixArgsAtMost(k) ==
    \A r \in {from_instrs(SubSeq(instrs, 1, k))} :
        r.err = None => sig(r.env).args <= sig(Env).args

\* C30: min_height and each temp min-height never decrease from one
\* instruction to the next; hence whenever a slice and one of its prefixes
\* both check successfully through the simulator, args(prefix) <= args(slice).
C30_MinHeightMonotone ==
    /\ [][/\ min_height' >= min_height
          /\ \A t \in TempStack : temp_min_heights'[t] >= temp_min_heights[t]]_vars
    /\ []((err = None /\ ThroughSimulator) =>
                \A k \in 0..Len(instrs) : PrefixArgsAtMost(k))

\* the slice takes two values from below it while its first instruction alone
\* takes one: args 1 for the prefix, 2 for the slice
C30_Witness ==
    /\ instrs = <<PushTemp(1, "Inline"), PushTemp(1, "Inline")>>
    /\ err = None
    /\ min_height = 2
    /\ from_instrs(<<PushTemp(1, "Inline")>>).env.min_height = 1

----------------------------------------------------------------------------
(* The innermost array marker *)

\* the last step closed a literal with EndRandArray and left an outer one open
ClosedRandInside ==
    /\ instrs # <<>>
    /\ Last(instrs) = EndRandArrayPrim
    /\ err = None
    /\ array_stack # <<>>

\* C31: in every state of a check with an open array literal, the innermost
\* array marker is at most the height: every pop lowers it with the height,
\* and closing a literal, by EndArray or by EndRandArray, lowers the marker
\* of the enclosing literal to the height the closed literal leaves.
C31_MarkerBelowHeight ==
    array_stack # <<>> => Last(array_stack) <= height

\* a literal inside a literal took values from below both markers and was
\* closed by EndRandArray: the enclosing marker came down with the height
C31_Witness ==
    /\ ClosedRandInside
    /\ Last(array_stack) < 0
    /\ Last(array_stack) = height - 1

----------------------------------------------------------------------------
(* RepeatWithInverse *)

\* the environment in which Repeat finds f, the top pending signature, where
\* RepeatWithInverse finds f above the declared inverse
WithoutDeclaredInverse ==
    [Env EXCEPT !.function_stack =
        Append(SubSeq(function_stack, 1, Len(function_stack) - 2), Pending(0))]

\* the step leaves what Repeat leaves of the environment without the declared
\* inverse
LikeRepeat ==
    \A r \in {instr_Repeat(WithoutDeclaredInverse)} :
        Install(r.env) /\ err' = r.err

\* the step leaves the values and the heights as they were
KeepsCount ==
    /\ stack' = stack
    /\ height' = height
    /\ min_height' = min_height

\* C32: RepeatWithInverse pops f, then inv, and fails with kind Ambiguous
\* whenever inverse(f) # inv, before it pops the count: the count stays on the
\* stack, whatever error the count and f would give to Repeat; when
\* inverse(f) = inv it leaves what Repeat leaves with f.
C32_RepeatWithInverse ==
    [][(Takes(RepeatWithInversePrim) /\ Len(function_stack) >= 2) =>
            IF inverse(Pending(0)) # Pending(1)
            THEN FailsWith(Ambiguous) /\ PopsFuncs(2) /\ KeepsCount
            ELSE LikeRepeat]_vars

\* RepeatWithInverse of f = (2,1) with the declared inverse (1,1) and an
\* infinite count, for which Repeat fails with LoopOverreach, has failed with
\* Ambiguous and left the count on the stack
C32_Witness ==
    /\ instrs = <<Push(NumValue(F64Inf)), PushFunc(Signature(1, 1)),
                  PushFunc(Signature(2, 1)), RepeatWithInversePrim>>
    /\ err # None
    /\ err[1].kind = Ambiguous
    /\ stack = <<Num(F64Inf)>>
    /\ \A r \in {instr_Repeat([Env EXCEPT !.function_stack = <<Signature(2, 1)>>])} :
          r.err # None /\ r.err[1].kind = LoopOverreach

----------------------------------------------------------------------------
(* Repeat with a count that is neither an integer nor infinite *)

\* the count Repeat will pop is a finite fraction or NaN
FractionOrNaNCount ==
    /\ stack # <<>>
    /\ Last(stack).t = "Num"
    /\ Last(stack).n[1] \in {"half", "nan"}

\* C36: Repeat with a known count that is a finite fraction or NaN pops the
\* count and fails with kind Incorrect, for every body signature, the
\* balanced ones included.
C36_FractionCount ==
    [][(Takes(RepeatPrim) /\ function_stack # <<>> /\ FractionOrNaNCount) =>
            PopsCountAndFailsWith(Incorrect) /\ PopsFuncs(1)]_vars

\* a Repeat of a balanced body with the count 1/2 or NaN has failed
C36_Witness ==
    /\ Len(instrs) = 3
    /\ instrs[1] \in {Push(NumValue(F64Half(0))), Push(NumValue(F64NaN))}
    /\ instrs[2] = PushFunc(Signature(1, 1))
    /\ instrs[3] = RepeatPrim
    /\ err # None
    /\ err[1].kind = Incorrect

----------------------------------------------------------------------------
(* Repeat with the count 0 *)

\* the check of push 0, f, Repeat for the body f
ZeroRepeatOf(f) == <<Push(NumValue(F64Int(0))), PushFunc(f), RepeatPrim>>

\* C35: Repeat with the known count 0 pops the count and does nothing else to
\* the main stack, for every body signature f: the values under the count stay
\* as they are, no argument of f is required and no output is pushed, so the
\* slice push 0, f, Repeat checks as (0, 0).
C35_ZeroCount ==
    /\ [][(Takes(RepeatPrim) /\ function_stack # <<>> /\ KnownCount(0)) =>
            /\ OnlyPopsCount
            /\ temp_stacks' = temp_stacks
            /\ temp_heights' = temp_heights]_vars
    /\ [](\A f \in FuncSigs :
            (pc = "done" /\ instrs = ZeroRepeatOf(f)) =>
                result[1] = OkSig(Signature(0, 0)))

\* a Repeat of the body (2,1) with the count 0 above another literal has left
\* that literal alone and required nothing below it
C35_Witness ==
    /\ instrs = <<Push(CharValue)>> \o ZeroRepeatOf(Signature(2, 1))
    /\ err = None
    /\ height = 1
    /\ min_height = 0
    /\ stack = <<Other>>

----------------------------------------------------------------------------
(* Values moved about the stack *)

\* The stacks of a run of the slice, as the instructions' names say: a value
\* is a pushed literal, or a value that was on a stack before the slice.
OutsideValue == Value("Outside", <<>>, <<>>)
RunStart == [main |-> <<>>, temp |-> [t \in TempStack |-> <<>>]]
RunTop(s) == IF s.main = <<>> THEN OutsideValue ELSE Last(s.main)
RunPop(s) == [s EXCEPT !.main = IF @ = <<>> THEN <<>> ELSE Front(@)]
RunPush(s, v) == [s EXCEPT !.main = Append(@, v)]
\* the top k values of the main stack, the top one first
RECURSIVE RunTopValues(_, _)
RunTopValues(s, k) ==
    IF k = 0 THEN <<>> ELSE <<RunTop(s)>> \o RunTopValues(RunPop(s), k - 1)
RECURSIVE RunPopN(_, _)
RunPopN(s, k) == IF k = 0 THEN s ELSE RunPopN(RunPop(s), k - 1)
\* k values moved from temp stack t to the main stack, one at a time
RECURSIVE RunFromTemp(_, _, _)
RunFromTemp(s, t, k) ==
    IF k = 0 THEN s
    ELSE LET v == IF s.temp[t] = <<>> THEN OutsideValue ELSE Last(s.temp[t])
             s1 == [s EXCEPT !.temp[t] = IF @ = <<>> THEN <<>> ELSE Front(@)]
         IN  RunFromTemp(RunPush(s1, v), t, k - 1)

RunInstr(s, i) ==
    LET a == RunTop(s)
        b == RunTop(RunPop(s))
        under == RunPop(RunPop(s))
    IN  CASE i.op = "Push" -> RunPush(s, i.val)
          [] i.op = "PushFunc" -> s
          \* the top moved values go to the temp stack, the top one first
          [] i.op = "PushTemp" ->
                [RunPopN(s, i.count) EXCEPT
                    !.temp[i.stack] = @ \o RunTopValues(s, i.count)]
          \* a copy leaves the main stack as it is
          [] i.op = "CopyToTemp" ->
                [s EXCEPT !.temp[i.stack] = @ \o RunTopValues(s, i.count)]
          [] i.op = "PopTemp" -> RunFromTemp(s, i.stack, i.count)
          [] i.op = "Prim" /\ i.prim = "Dup" -> RunPush(s, a)
          [] i.op = "Prim" /\ i.prim = "Flip" -> RunPush(RunPush(under, a), b)
          [] i.op = "Prim" /\ i.prim = "Over" -> RunPush(s, b)
          [] i.op = "Prim" /\ i.prim = "Around" ->
                RunPush(RunPush(RunPush(under, a), b), a)

RECURSIVE RunOf(_, _)
RunOf(slice, m) ==
    IF m = 0 THEN RunStart ELSE RunInstr(RunOf(slice, m - 1), slice[m])

\* the slice so far only pushes literals and the body and moves values
MovesOnly ==
    \A k \in 1..Len(instrs) :
        \/ instrs[k].op \in {"Push", "PushFunc", "PushTemp", "CopyToTemp", "PopTemp"}
        \/ instrs[k] \in StackPrims

\* the moves of the slice so far bring the literal count n to the top
CountReachesTop(n) ==
    /\ MovesOnly
    /\ RunTop(RunOf(instrs, Len(instrs))) = NumValue(F64Int(n))

\* C38: the values of the record follow the stack through Dup, Flip, Over,
\* Around and the moves to and from the temp stacks: when the moves of the
\* slice bring a literal count n to the top of the stack, the record has n on
\* top and Repeat applies the rule of the known count n.
C38_ValuesFollow ==
    [][\A n \in 1..MaxCount :
          (Takes(RepeatPrim) /\ function_stack # <<>> /\ CountReachesTop(n)) =>
              /\ KnownCount(n)
              /\ LET r == KnownCountRule(Pending(0), n)
                 IN  RepeatHandles(r.args, r.outputs)]_vars

----------------------------------------------------------------------------
(* The bounds of naive_under_sig *)

\* the inverse step naive_under_sig uses for f
InverseStep(f) ==
    IF f.outputs > 1 THEN inverse(f) ELSE Signature(Min(f.args, 1), f.outputs)

\* C37: for all signatures f and g, naive_under_sig(f, g) is a signature with
\* args >= f.args and outputs >= the outputs of the inverse step it uses: the
\* counter never ends below its minimum and no count wraps.
C37_UnderSigBounds ==
    (pc = "done" /\ Len(function_stack) = 2) =>
        /\ result[1] # None
        /\ result[1][1].args >= function_stack[2].args
        /\ result[1][1].outputs >= InverseStep(function_stack[2]).outputs

----------------------------------------------------------------------------
(* instrs_clean_signature_asm *)

\* the functions a slice pushes, and those and the ones their bodies push, at
\* any depth
PushedBy(slice) ==
    {slice[k].body : k \in {j \in 1..Len(slice) : slice[j].op = "PushFunc"}}
RECURSIVE PushedUnder(_)
PushedUnder(k) ==
    {k} \cup UNION {PushedUnder(j) : j \in PushedBy(Function_instrs(k))}
AllPushedBy(slice) == UNION {PushedUnder(k) : k \in PushedBy(slice)}

\* the body of function k, checked on its own, succeeds and ends clean
CleanBody(k) ==
    /\ body_from_instrs[k].err = None
    /\ is_clean(AllSignatures(body_from_instrs[k].env))

\* no two different slices among the slice and the bodies under it have the
\* same hash, so every lookup that hits finds the bundle of the slice asked for
NoSharedHash(slice) ==
    \A x, y \in {slice} \cup {Function_instrs(k) : k \in AllPushedBy(slice)} :
        hash(x) = hash(y) => x = y

\* instrs_clean_signature_asm has returned
CleanAsmDone == pc = "done" /\ Last(calls).fn = "instrs_clean_signature_asm"

\* C34: instrs_clean_signature_asm returns Some(main signature) only if the
\* slice is clean and the body of every function it pushes is clean, and the
\* bodies of the functions those bodies push, at any depth; with every one of
\* them clean it returns Some, and one unclean body at any depth makes it None
\* although the slice itself is clean.
C34_CleanAsm ==
    (CleanAsmDone /\ NoSharedHash(instrs)) =>
        result[1] = (IF EndsClean /\ \A k \in AllPushedBy(instrs) : CleanBody(k)
                     THEN Some(MainSig) ELSE None)

\* function 5 was pushed and called: the slice is clean, the body of 5 and
\* the body of 4 under it are clean, the body of 2 under that is not, and the
\* result is None
C34_Witness ==
    /\ CleanAsmDone
    /\ instrs = <<PushFuncOf(5), Call>>
    /\ NoSharedHash(instrs)
    /\ EndsClean
    /\ CleanBody(5) /\ CleanBody(4) /\ ~CleanBody(2)
    /\ result[1] = None

----------------------------------------------------------------------------
(* C33 *)

\* the outcome of from_instrs on each slice the threads check
slice_outcome == [s \in ThreadSlices |-> from_instrs(s)]

\* the cache thread t has after the calls it returned from among the first k
\* events, had it made them one after the other with no other thread running
RECURSIVE AloneCache(_, _)
AloneCache(t, k) ==
    IF k = 0 THEN <<>>
    ELSE IF calls[k].thread # t \/ calls[k].kind # "return" THEN AloneCache(t, k - 1)
    ELSE with_cache(AloneCache(t, k - 1), hash(calls[k].slice),
                    slice_outcome[calls[k].slice]).cache

\* what the call that returned at event k returns when its thread runs alone
AloneResult(k) ==
    with_cache(AloneCache(calls[k].thread, k - 1), hash(calls[k].slice),
               slice_outcome[calls[k].slice]).result

\* a step of one thread leaves the cache of every other thread as it was
OwnCacheOnly ==
    \A t \in Threads : cache'[t] # cache[t] =>
        /\ pc[t] = "miss" /\ pc'[t] = "idle"
        /\ \A u \in Threads \ {t} : cache'[u] = cache[u] /\ pc'[u] = pc[u]

\* C33: checks interleaved on different threads do not race on the cache:
\* the cache of a thread is the one its own calls alone build, a step that
\* inserts changes the cache of the thread that takes it and no other, and
\* every call returns what it returns when its thread runs alone
C33_ThreadLocal ==
    /\ [](\A t \in Threads : cache[t] = AloneCache(t, Len(calls)))
    /\ [](\A k \in 1..Len(calls) :
            calls[k].kind = "return" => calls[k].result = AloneResult(k))
    /\ [][OwnCacheOnly]_vars

\* t1 called on the empty slice and missed, t2 then called on the slice that
\* shares its hash, missed too and got the Err, and t1 returned after it
C33_Witness ==
    /\ Len(calls) = 4
    /\ calls[1] = Called("t1", <<>>)
    /\ calls[2] = Called("t2", <<EndArray, EndArray>>)
    /\ calls[3].thread = "t2" /\ calls[3].kind = "return" /\ ~calls[3].result.ok
    /\ calls[4].thread = "t1" /\ calls[4].kind = "return" /\ calls[4].result.ok
    /\ hash(<<>>) = hash(<<EndArray, EndArray>>)
    /\ DOMAIN cache["t1"] = {hash(<<>>)}
    /\ cache["t2"] = <<>>

====
